---- MODULE Spec2Model ----
(***************************************************************************)
(* Model of the SELECT executor of the sqlite-exploration engine:          *)
(* HandleSelect / queryTable / handleQueryLeaf / handleQueryConstraint /   *)
(* handleQueryIdentifers over parsed pages and cells, together with the    *)
(* record field decoder (newCellHeader, HeaderOffsetFromN,                 *)
(* ReadDataFromHeaderIndex) they call, and of the file layer beneath:      *)
(* newDatabaseHeader, newPageHeader, newPage, newCell, readVarint and the  *)
(* schema walk.                                                            *)
(*                                                                         *)
(* Strings are sequences of bytes (ASCII codes), as Go strings are, so     *)
(* that lowercasing, decimal formatting, joining and substring tests are   *)
(* computed and not assumed.                                               *)
(***************************************************************************)
EXTENDS Integers, Sequences, FiniteSets, TLC

VARIABLES
    query,    \* selectCtx handed to HandleSelect for the current invocation
    ti,       \* position of HandleSelect's loop in query.Tables (1-based)
    pc,       \* "select" | "scan" | "done" | "panic"
    q,        \* queryContext of the table being scanned
    stack,    \* call stack of queryTable: frames [page, i]
    out,      \* what the current invocation has printed on stdout
    loads,    \* page numbers handed to newPageFromNumber for the current table
    visited,  \* leaf cells reached by handleQueryLeaf's loop body, current table
    emitted,  \* leaf cells for which q.count was incremented, current table
    run,      \* 1 for the first invocation, 2 for the second
    first,    \* query and output of the first invocation, once it has ended
    call,     \* the file-layer or decoder call under study and its arguments
    ret       \* what that call has returned, once it has

\* The variables of the SELECT executor, and those of a single call.
svars == <<query, ti, pc, q, stack, out, loads, visited, emitted, run, first>>
cvars == <<call, ret>>
vars == <<query, ti, pc, q, stack, out, loads, visited, emitted, run, first,
          call, ret>>

(***************************************************************************)
(* Bounds of the model.                                                    *)
(***************************************************************************)
MaxLimit == 2
MaxTables == 2
MaxCells == 2       \* cells on a page of the files handed to the page loader

(***************************************************************************)
(* Program constants.                                                      *)
(***************************************************************************)
InteriorIndexType == 2
InteriorTableType == 5
LeafIndexType == 10
LeafTableType == 13

SerialBlob == 12
SerialText == 13

(***************************************************************************)
(* Byte strings.                                                           *)
(***************************************************************************)
Byte == 0..255

\* strings.ToLower on ASCII bytes.
ToLower(s) == [i \in 1..Len(s) |-> IF s[i] >= 65 /\ s[i] <= 90 THEN s[i] + 32 ELSE s[i]]

RECURSIVE Digits(_)
Digits(n) == IF n < 10 THEN <<48 + n>> ELSE Append(Digits(n \div 10), 48 + (n % 10))

\* fmt.Sprintf("%d", n) for a signed integer.
Itoa(n) == IF n < 0 THEN <<45>> \o Digits(-n) ELSE Digits(n)

\* strings.Contains(s, sub).
Contains(s, sub) ==
    \E i \in 1..(Len(s) - Len(sub) + 1) : SubSeq(s, i, i + Len(sub) - 1) = sub

RECURSIVE Join(_, _)
\* strings.Join(strs, sep).
Join(strs, sep) ==
    IF Len(strs) = 0 THEN <<>>
    ELSE IF Len(strs) = 1 THEN strs[1]
    ELSE strs[1] \o sep \o Join(Tail(strs), sep)

RECURSIVE Split(_, _)
\* strings.Split(s, sep) for a one-byte separator; inverse reading of Join.
Split(s, sep) ==
    IF \A i \in 1..Len(s) : s[i] # sep THEN <<s>>
    ELSE LET i == CHOOSE j \in 1..Len(s) :
                      s[j] = sep /\ \A k \in 1..(j - 1) : s[k] # sep
         IN <<SubSeq(s, 1, i - 1)>> \o Split(SubSeq(s, i + 1, Len(s)), sep)

RECURSIVE Atoi(_)
\* strconv.Atoi for an unsigned decimal string.
Atoi(s) == IF Len(s) = 0 THEN 0
           ELSE 10 * Atoi(SubSeq(s, 1, Len(s) - 1)) + (s[Len(s)] - 48)

Pipe == <<124>>
Newline == <<10>>

(***************************************************************************)
(* Record decoder: serial types, field offsets, field values.              *)
(***************************************************************************)

\* newCellHeader: the {Type, Size} entry of one serial-type varint.
newCellHeader(variant) ==
    IF variant > SerialText /\ variant % 2 = 1
    THEN [Type |-> SerialText, Size |-> (variant - 13) \div 2]
    ELSE IF variant > SerialBlob /\ variant % 2 = 0
    THEN [Type |-> SerialBlob, Size |-> (variant - 12) \div 2]
    ELSE CASE variant = 5 -> [Type |-> 5, Size |-> 6]
           [] variant = 6 -> [Type |-> 6, Size |-> 8]
           [] variant = 7 -> [Type |-> 7, Size |-> 8]
           [] variant = 8 -> [Type |-> 8, Size |-> 0]
           [] variant = 9 -> [Type |-> 9, Size |-> 0]
           [] OTHER -> [Type |-> variant, Size |-> variant]

RECURSIVE SumSizes(_, _)
SumSizes(header, n) == IF n = 0 THEN 0 ELSE SumSizes(header, n - 1) + header[n].Size

\* HeaderOffsetFromN: byte offset in Data of the field at 0-based position n.
HeaderOffsetFromN(c, n) ==
    IF n >= Len(c.Header) THEN 0 ELSE SumSizes(c.Header, n)

\* An int64 too wide for plain arithmetic is kept as its 64 bits, most
\* significant first.
Int64Bits == 64

RECURSIVE Pow2(_)
Pow2(n) == IF n = 0 THEN 1 ELSE 2 * Pow2(n - 1)

\* The low k bits of the byte x, most significant first.
LowBits(x, k) == [i \in 1..k |-> (x \div Pow2(k - i)) % 2]

Zero64 == [i \in 1..Int64Bits |-> 0]

\* (v << k) | x for an int64 v and x < 2^k.
ShiftOr(v, k, x) == SubSeq(v, k + 1, Int64Bits) \o LowBits(x, k)

\* The number a group of bits spells.
RECURSIVE BitsToNat(_)
BitsToNat(bits) ==
    IF Len(bits) = 0 THEN 0
    ELSE 2 * BitsToNat(SubSeq(bits, 1, Len(bits) - 1)) + bits[Len(bits)]

\* The bits of a run of bytes, most significant first.
RECURSIVE BytesBits(_)
BytesBits(data) ==
    IF Len(data) = 0 THEN <<>>
    ELSE LowBits(data[1], 8) \o BytesBits(SubSeq(data, 2, Len(data)))

\* val |= int64(data[0]) << 40 ... | int64(data[5]) for a zero int64 val.
Or48(data) == SubSeq(Zero64, 1, 16) \o BytesBits(data)

\* Variant of SignExtend48 that leaves the high bits clear.
SignExtend48Never(val) == val

\* if val&(1<<47) != 0 { val |= ^((1 << 48) - 1) }
SignExtend48(val) ==
    IF val[17] = 1 THEN [i \in 1..Int64Bits |-> IF i <= 16 THEN 1 ELSE val[i]]
    ELSE val

RECURSIVE BigEndianSigned(_)
\* int64(intN(binary.BigEndian.UintN(data))): big-endian two's complement.
BigEndianSigned(data) ==
    IF Len(data) = 1 THEN (IF data[1] >= 128 THEN data[1] - 256 ELSE data[1])
    ELSE 256 * BigEndianSigned(SubSeq(data, 1, Len(data) - 1)) + data[Len(data)]

IntVal(n) == [kind |-> "int", n |-> n, s |-> <<>>]
Int64Val(bits) == [kind |-> "int64", n |-> 0, s |-> bits]
StrVal(s) == [kind |-> "str", n |-> 0, s |-> s]

\* The number an int64 holds, for the values below 2^30 that the cells of
\* the files studied hold.
Num(bits) == BitsToNat(SubSeq(bits, 35, Int64Bits))

Returned(v) == [panic |-> FALSE, err |-> FALSE, val |-> v]
Failed == [panic |-> FALSE, err |-> TRUE, val |-> IntVal(0)]
Panicked == [panic |-> TRUE, err |-> FALSE, val |-> IntVal(0)]

\* ReadDataFromHeaderIndex: (value, error) of the field at 0-based headerIdx;
\* an index outside Header or a slice outside Data is a run-time panic.
ReadDataFromHeaderIndex(c, headerIdx) ==
    IF headerIdx < 0 \/ headerIdx >= Len(c.Header) THEN Panicked
    ELSE LET h == c.Header[headerIdx + 1]
             start == HeaderOffsetFromN(c, headerIdx)
             end == start + h.Size
         IN IF end > Len(c.Data) \/ start > end THEN Panicked
            ELSE LET data == SubSeq(c.Data, start + 1, end)
                 IN CASE h.Type \in {1, 2, 4} -> Returned(IntVal(BigEndianSigned(data)))
                      [] h.Type = 5 -> Returned(Int64Val(SignExtend48(Or48(data))))
                      [] h.Type = 6 -> Returned(Int64Val(BytesBits(data)))
                      [] h.Type = 3 ->
                            LET val == data[1] * 65536 + data[2] * 256 + data[3]
                            IN Returned(IntVal(IF val >= 8388608 THEN val - 16777216 ELSE val))
                      [] h.Type = 7 -> Returned([kind |-> "float", n |-> 0, s |-> data])
                      [] h.Type = 8 -> Returned(IntVal(0))
                      [] h.Type = 9 -> Returned(IntVal(1))
                      [] h.Type = 13 -> Returned(StrVal(data))
                      [] OTHER -> Failed

\* fmt.Sprintf("%v", d) for the integer and string values the decoder returns.
Sprintv(d) ==
    CASE d.kind = "int" -> Itoa(d.n)
      [] d.kind = "str" -> d.s
      [] d.kind = "int64" /\ \A i \in 1..34 : d.s[i] = 0 ->
            Itoa(BitsToNat(SubSeq(d.s, 35, Int64Bits)))

(***************************************************************************)
(* The database file after open: parsed pages by page number, and the      *)
(* table map d.Tables (name -> schema cell with its ColumnMap).            *)
(***************************************************************************)

\* Identifiers: column names and the count sentinel, as byte strings.
CountIdent == <<99, 111, 117, 110, 116, 40, 42, 41>>   \* the bytes of the count sentinel
IdSubstring == <<105, 100>>                            \* "id"
ColId == <<105, 100>>                                  \* "id"
ColNm == <<110, 109>>                                  \* "nm"
ColCol == <<99, 111, 108>>                             \* "col"
ColWid == <<119, 105, 100>>                            \* "wid" (contains "id")
ColZz == <<122, 122>>                                  \* "zz"  (in no table)

LeafTableCell(rowID, variants, data) ==
    [PageType |-> LeafTableType, LeftPageNumber |-> 0, RowID |-> rowID,
     Header |-> [i \in 1..Len(variants) |-> newCellHeader(variants[i])],
     Data |-> data, ColumnMap |-> <<>>]

InteriorTableCell(left, rowID) ==
    [PageType |-> InteriorTableType, LeftPageNumber |-> left, RowID |-> rowID,
     Header |-> <<>>, Data |-> <<>>, ColumnMap |-> <<>>]

Page(kind, cells, right) ==
    [PageType |-> kind, Cells |-> cells, RightMostPointer |-> right]

\* Schema row: type "table", name, tbl_name, rootpage, sql (one byte here);
\* the column map is the one ParseColumnMap built at open.
SchemaCell(rowID, name, rootVariant, rootBytes, columns) ==
    [PageType |-> LeafTableType, LeftPageNumber |-> 0, RowID |-> rowID,
     Header |-> [i \in 1..5 |->
                    newCellHeader(<<23, 15, 15, rootVariant, 15>>[i])],
     Data |-> <<116, 97, 98, 108, 101>> \o name \o name \o rootBytes \o <<40>>,
     ColumnMap |-> columns]

ColumnsA == (ColId :> 0) @@ (ColNm :> 1) @@ (ColCol :> 2)
ColumnsB == (ColId :> 0) @@ (ColWid :> 1)
ColumnsD == (ColId :> 0) @@ (ColNm :> 1)

\* Table "a": root 2 is interior over leaf 3, interior 4 (leaves 10, 11)
\* and the right-most leaf 5; its second cell has no left child.
\* Table "b": root 6 is a leaf.  Table "d": root 7 is interior, its third
\* child 20 lies outside the file.  Page 9 is an index leaf.
File ==
    (2 :> Page(InteriorTableType,
               <<InteriorTableCell(3, 2), InteriorTableCell(0, 2),
                 InteriorTableCell(4, 4)>>, 5))
    @@ (3 :> Page(LeafTableType,
               <<LeafTableCell(1, <<0, 17, 15>>, <<70, 117, 82>>),
                 LeafTableCell(2, <<0, 15, 0>>, <<103>>)>>, 0))
    @@ (4 :> Page(InteriorTableType, <<InteriorTableCell(10, 3)>>, 11))
    @@ (10 :> Page(LeafTableType,
               <<LeafTableCell(3, <<0, 0, 0>>, <<>>)>>, 0))
    @@ (11 :> Page(LeafTableType,
               <<LeafTableCell(4, <<0, 15, 15>>, <<120, 48>>)>>, 0))
    @@ (5 :> Page(LeafTableType,
               <<LeafTableCell(5, <<1, 17, 8>>, <<9, 102, 85>>)>>, 0))
    @@ (6 :> Page(LeafTableType,
               <<LeafTableCell(1, <<0, 0>>, <<>>),
                 LeafTableCell(2, <<9, 1>>, <<0>>)>>, 0))
    @@ (7 :> Page(InteriorTableType,
               <<InteriorTableCell(8, 1), InteriorTableCell(9, 1),
                 InteriorTableCell(20, 2)>>, 0))
    @@ (8 :> Page(LeafTableType,
               <<LeafTableCell(1, <<0, 15>>, <<113>>)>>, 0))
    @@ (9 :> Page(LeafIndexType, <<>>, 0))

\* d.Tables.  "c" has a root page outside the file; the row of "e" has a
\* NULL where tbl_name is expected, so RootPage rejects it.
Tables ==
    ("a" :> SchemaCell(1, <<97>>, 1, <<2>>, ColumnsA))
    @@ ("b" :> SchemaCell(2, <<98>>, 1, <<6>>, ColumnsB))
    @@ ("c" :> SchemaCell(3, <<99>>, 1, <<30>>, ColumnsB))
    @@ ("d" :> SchemaCell(4, <<100>>, 1, <<7>>, ColumnsD))
    @@ ("e" :> [SchemaCell(5, <<101>>, 1, <<8>>, ColumnsD)
                   EXCEPT !.Header[3] = newCellHeader(0),
                          !.Data = <<116, 97, 98, 108, 101, 101, 8, 40>>])

TableNames == {"a", "b", "c", "d", "e", "x"}

(***************************************************************************)
(* Page loader, as far as the executor sees it.                            *)
(***************************************************************************)

\* newPage: the parsed page, or an error when the page lies outside the
\* file or one of its cells cannot be decoded (unknown page kind).
newPage(pageNumber) ==
    IF pageNumber \notin DOMAIN File THEN [err |-> TRUE, page |-> 0]
    ELSE IF /\ File[pageNumber].PageType \notin
                  {InteriorIndexType, InteriorTableType, LeafIndexType, LeafTableType}
            /\ Len(File[pageNumber].Cells) > 0
    THEN [err |-> TRUE, page |-> 0]
    ELSE [err |-> FALSE, page |-> pageNumber]

\* newPageFromNumber(d, pageNumber).
newPageFromNumber(pageNumber) == newPage(pageNumber)

(***************************************************************************)
(* Schema cell: root page number.                                          *)
(***************************************************************************)

\* RootPage: (page number, error); val.(int64) panics on a value that is
\* no int64: the untyped constants returned for serial types 8 and 9, a
\* float64, a string.
RootPage(c) ==
    IF c.PageType = InteriorTableType THEN [panic |-> FALSE, err |-> TRUE, n |-> 0]
    ELSE IF Len(c.Data) <= 0 THEN [panic |-> FALSE, err |-> TRUE, n |-> 0]
    ELSE IF \/ Len(c.Header) < 4
            \/ c.Header[1].Type # SerialText
            \/ c.Header[2].Type # SerialText
            \/ c.Header[3].Type # SerialText
    THEN [panic |-> FALSE, err |-> TRUE, n |-> 0]
    ELSE LET r == ReadDataFromHeaderIndex(c, 3)
         IN IF r.panic THEN [panic |-> TRUE, err |-> FALSE, n |-> 0]
            ELSE IF r.err THEN [panic |-> FALSE, err |-> TRUE, n |-> 0]
            ELSE IF c.Header[4].Type \in {8, 9} \/ r.val.kind \notin {"int", "int64"}
            THEN [panic |-> TRUE, err |-> FALSE, n |-> 0]
            ELSE IF r.val.kind = "int64"
            THEN [panic |-> FALSE, err |-> FALSE, n |-> Num(r.val.s)]
            ELSE [panic |-> FALSE, err |-> FALSE, n |-> r.val.n]

(***************************************************************************)
(* Query: select context and per-row evaluation.                           *)
(***************************************************************************)

\* NewSelectCtx, from the parts the SQL parser delivers.
NewSelectCtx(tables, idents, constraint, limit) ==
    [Tables |-> tables, Identifiers |-> idents, Constraint |-> constraint,
     IsCount |-> Len(idents) > 0 /\ idents[1] = CountIdent, Limit |-> limit]

\* newQueryContext.
newQueryContext(tableName) ==
    [tableName |-> tableName, rootCell |-> 0, count |-> 0, data |-> <<>>]

NoError == [kind |-> "none", column |-> <<>>, table |-> "", cell |-> 0]

\* The iteration orders a Go map range may take over the keys of m.
KeyOrders(m) ==
    {o \in [1..Cardinality(DOMAIN m) -> DOMAIN m] :
        \A i, j \in 1..Cardinality(DOMAIN m) : i # j => o[i] # o[j]}

\* The row_id substitution test of both handlers.
SubstituteRowID(k, value) == Len(value) <= 0 /\ Contains(k, IdSubstring)

RECURSIVE ConstraintLoop(_, _, _, _, _, _)
\* The loop of handleQueryConstraint from position i of the key order.
ConstraintLoop(order, i, col, c, qq, constraint) ==
    IF i > Len(order) THEN [panic |-> FALSE, ok |-> TRUE, err |-> NoError, col |-> col]
    ELSE LET k == order[i]
             v == constraint[k]
         IN IF k \notin DOMAIN qq.rootCell.ColumnMap
            THEN [panic |-> FALSE, ok |-> FALSE,
                  err |-> [kind |-> "constraint", column |-> k,
                           table |-> qq.tableName, cell |-> c.RowID],
                  col |-> col]
            ELSE LET r == ReadDataFromHeaderIndex(c, qq.rootCell.ColumnMap[k])
                     d == Sprintv(r.val)
                     value == IF SubstituteRowID(k, d) THEN Itoa(c.RowID) ELSE d
                     col2 == [x \in (DOMAIN col) \cup {k} |->
                                 IF x = k THEN value ELSE col[x]]
                 IN IF r.panic
                    THEN [panic |-> TRUE, ok |-> FALSE, err |-> NoError, col |-> col]
                    ELSE IF ToLower(value) # v
                    THEN [panic |-> FALSE, ok |-> FALSE, err |-> NoError, col |-> col2]
                    ELSE ConstraintLoop(order, i + 1, col2, c, qq, constraint)

\* handleQueryConstraint under one iteration order of q.query.Constraint.
handleQueryConstraint(order, c, qq, constraint) ==
    ConstraintLoop(order, 1, <<>>, c, qq, constraint)

RECURSIVE IdentifierLoop(_, _, _, _, _, _)
\* The loop of handleQueryIdentifers from position i of q.query.Identifiers.
IdentifierLoop(i, strs, col, c, qq, qry) ==
    IF i > Len(qry.Identifiers) THEN [panic |-> FALSE, err |-> NoError, strs |-> strs]
    ELSE LET k == qry.Identifiers[i]
         IN IF qry.IsCount
            THEN IdentifierLoop(i + 1, Append(strs, <<>>), col, c, qq, qry)
            ELSE IF k \notin DOMAIN col /\ k \notin DOMAIN qq.rootCell.ColumnMap
            THEN [panic |-> FALSE,
                  err |-> [kind |-> "identifier", column |-> k,
                           table |-> qq.tableName, cell |-> c.RowID],
                  strs |-> strs]
            ELSE LET r == IF k \in DOMAIN col THEN Returned(StrVal(col[k]))
                          ELSE ReadDataFromHeaderIndex(c, qq.rootCell.ColumnMap[k])
                     d == IF r.err THEN <<>> ELSE Sprintv(r.val)
                     value == IF SubstituteRowID(k, d) THEN Itoa(c.RowID) ELSE d
                 IN IF r.panic THEN [panic |-> TRUE, err |-> NoError, strs |-> strs]
                    ELSE IdentifierLoop(i + 1,
                            IF Len(value) > 0 THEN Append(strs, value) ELSE strs,
                            col, c, qq, qry)

\* Variant of handleQueryIdentifers that stops at an unknown column without
\* reporting it.
handleQueryIdentifersSilent(col, c, qq, qry) ==
    [IdentifierLoop(1, <<>>, col, c, qq, qry) EXCEPT !.err = NoError]

\* handleQueryIdentifers.
handleQueryIdentifers(col, c, qq, qry) == IdentifierLoop(1, <<>>, col, c, qq, qry)

\* Variant of LimitReached with the comparison off by one.
LimitReachedLate(qq, qry) == qry.Limit > 0 /\ qq.count > qry.Limit

\* The limit test at the head of handleQueryLeaf's loop body.
LimitReached(qq, qry) == qry.Limit > 0 /\ qq.count >= qry.Limit

\* One pass of handleQueryLeaf's loop body over cell c, the constraint map
\* ranged in `order`: the context afterwards, and the error or panic raised.
LeafStep(order, c, qq, qry) ==
    LET rc == handleQueryConstraint(order, c, qq, qry.Constraint)
        ri == handleQueryIdentifers(rc.col, c, qq, qry)
    IN IF rc.panic THEN [panic |-> TRUE, err |-> NoError, q |-> qq, emit |-> FALSE]
       ELSE IF rc.err.kind # "none"
       THEN [panic |-> FALSE, err |-> rc.err, q |-> qq, emit |-> FALSE]
       ELSE IF ~rc.ok THEN [panic |-> FALSE, err |-> NoError, q |-> qq, emit |-> FALSE]
       ELSE IF ri.panic THEN [panic |-> TRUE, err |-> NoError, q |-> qq, emit |-> FALSE]
       ELSE IF ri.err.kind # "none"
       THEN [panic |-> FALSE, err |-> ri.err, q |-> qq, emit |-> FALSE]
       ELSE IF Len(ri.strs) > 0
       THEN [panic |-> FALSE, err |-> NoError, emit |-> TRUE,
             q |-> [qq EXCEPT !.count = @ + 1,
                              !.data = IF qry.IsCount THEN @
                                       ELSE Append(@, Join(ri.strs, Pipe))]]
       ELSE [panic |-> FALSE, err |-> NoError, q |-> qq, emit |-> FALSE]

(***************************************************************************)
(* Inputs of the model: the queries handed to HandleSelect.                *)
(***************************************************************************)
TableLists ==
    {t \in UNION {[1..n -> TableNames] : n \in 1..MaxTables} :
        \A i, j \in 1..Len(t) : i # j => t[i] # t[j]}

Projections ==
    {<<CountIdent>>, <<ColId, ColNm>>, <<ColNm, ColCol>>, <<ColWid>>}

\* WHERE maps (nil when there is no WHERE): id = 2, col = 0, nm = 'fu',
\* and zz = 'a' AND nm = 'q'.
Constraints ==
    {<<>>,
     (ColId :> <<50>>),
     (ColCol :> <<48>>),
     (ColNm :> <<102, 117>>),
     (ColZz :> <<97>>) @@ (ColNm :> <<113>>)}

\* The queries of a second invocation: the same query, the same query
\* without LIMIT, and its COUNT form.
Twins(qry) ==
    {qry,
     [qry EXCEPT !.Limit = 0],
     NewSelectCtx(qry.Tables, <<CountIdent>>, qry.Constraint, qry.Limit)}

(***************************************************************************)
(* State machine of HandleSelect.                                          *)
(***************************************************************************)
Printed(kind, table, text, err) ==
    [kind |-> kind, table |-> table, text |-> text, err |-> err]

NoContext == newQueryContext("")

\* No single call is under study while HandleSelect runs.
NoCall == [op |-> "none"]

Init ==
    /\ \E t \in TableLists, p \in Projections, c \in Constraints, l \in 0..MaxLimit :
          query = NewSelectCtx(t, p, c, l)
    /\ ti = 1
    /\ pc = "select"
    /\ q = NoContext
    /\ stack = <<>>
    /\ out = <<>>
    /\ loads = <<>>
    /\ visited = <<>>
    /\ emitted = <<>>
    /\ run = 1
    /\ first = [set |-> FALSE, query |-> query, out |-> <<>>, pc |-> "select"]
    /\ call = NoCall
    /\ ret = NoCall

Top == stack[Len(stack)]
TopPage == File[Top.page]
\* Variant of Pop: the call never leaves its frame.
PopStays == stack
Pop == SubSeq(stack, 1, Len(stack) - 1)
Advance == [stack EXCEPT ![Len(stack)].i = @ + 1]

\* HandleSelect, one turn of the loop over s.Tables up to the call of
\* queryTable on the root page.
SelectTable ==
    /\ pc = "select"
    /\ ti <= Len(query.Tables)
    /\ LET t == query.Tables[ti]
           rp == RootPage(Tables[t])
           ld == newPageFromNumber(rp.n)
       IN IF t \notin DOMAIN Tables
          THEN /\ out' = Append(out, Printed("notable", t, <<>>, NoError))
               /\ ti' = ti + 1
               /\ UNCHANGED <<pc, stack, loads>>
               /\ q' = newQueryContext(t)
          ELSE IF rp.panic
          THEN /\ pc' = "panic"
               /\ q' = [newQueryContext(t) EXCEPT !.rootCell = Tables[t]]
               /\ UNCHANGED <<out, ti, stack, loads>>
          ELSE IF rp.err
          THEN /\ out' = Append(out, Printed("noroot", t, Itoa(Tables[t].RowID), NoError))
               /\ ti' = ti + 1
               /\ q' = [newQueryContext(t) EXCEPT !.rootCell = Tables[t]]
               /\ UNCHANGED <<pc, stack, loads>>
          ELSE /\ q' = [newQueryContext(t) EXCEPT !.rootCell = Tables[t]]
               /\ loads' = <<rp.n>>
               /\ IF ld.err
                  THEN pc' = "panic" /\ stack' = <<>>    \* queryTable on a nil page
                  ELSE pc' = "scan" /\ stack' = <<[page |-> ld.page, i |-> 1]>>
               /\ UNCHANGED <<out, ti>>
    /\ visited' = <<>>
    /\ emitted' = <<>>
    /\ UNCHANGED <<query, run, first>>
    /\ UNCHANGED cvars

\* handleQueryLeaf: one pass of the loop body.
LeafCell ==
    /\ pc = "scan" /\ stack # <<>>
    /\ TopPage.PageType = LeafTableType
    /\ Top.i <= Len(TopPage.Cells)
    /\ ~LimitReached(q, query)
    /\ \E order \in KeyOrders(query.Constraint) :
          LET r == LeafStep(order, TopPage.Cells[Top.i], q, query)
          IN /\ visited' = Append(visited, <<Top.page, Top.i>>)
             /\ IF r.panic
                THEN /\ pc' = "panic" /\ stack' = <<>>
                     /\ UNCHANGED <<q, out, emitted>>
                ELSE IF r.err.kind # "none"
                THEN /\ pc' = "done" /\ stack' = <<>>
                     /\ out' = Append(out, Printed("error", q.tableName, <<>>, r.err))
                     /\ UNCHANGED <<q, emitted>>
                ELSE /\ q' = r.q
                     /\ stack' = Advance
                     /\ emitted' = IF r.emit THEN Append(emitted, <<Top.page, Top.i>>)
                                   ELSE emitted
                     /\ UNCHANGED <<pc, out>>
    /\ UNCHANGED <<query, ti, loads, run, first>>
    /\ UNCHANGED cvars

\* handleQueryLeaf returns nil: the cells are exhausted or the limit is
\* reached; queryTable on the leaf returns nil in turn.
LeafReturn ==
    /\ pc = "scan" /\ stack # <<>>
    /\ TopPage.PageType = LeafTableType
    /\ Top.i > Len(TopPage.Cells) \/ LimitReached(q, query)
    /\ stack' = Pop
    /\ UNCHANGED <<query, ti, pc, q, out, loads, visited, emitted, run, first>>
    /\ UNCHANGED cvars

\* queryTable descending from an interior page into page number pn.
Descend(pn) ==
    LET ld == newPageFromNumber(pn)
    IN /\ loads' = Append(loads, pn)
       /\ IF ld.err
          THEN /\ pc' = "done" /\ stack' = <<>>
               /\ out' = Append(out, Printed("error", q.tableName, <<>>,
                            [kind |-> "load", column |-> <<>>,
                             table |-> q.tableName, cell |-> pn]))
          ELSE /\ stack' = Append(Advance, [page |-> ld.page, i |-> 1])
               /\ UNCHANGED <<pc, out>>

\* queryTable on an interior page: the loop over p.Cells.
InteriorChild ==
    /\ pc = "scan" /\ stack # <<>>
    /\ TopPage.PageType = InteriorTableType
    /\ Top.i <= Len(TopPage.Cells)
    /\ IF TopPage.Cells[Top.i].LeftPageNumber <= 0
       THEN stack' = Advance /\ UNCHANGED <<pc, out, loads>>
       ELSE Descend(TopPage.Cells[Top.i].LeftPageNumber)
    /\ UNCHANGED <<query, ti, q, visited, emitted, run, first>>
    /\ UNCHANGED cvars

\* queryTable on an interior page: the right-most pointer after the loop.
InteriorRightMost ==
    /\ pc = "scan" /\ stack # <<>>
    /\ TopPage.PageType = InteriorTableType
    /\ Top.i = Len(TopPage.Cells) + 1
    /\ TopPage.RightMostPointer > 0
    /\ Descend(TopPage.RightMostPointer)
    /\ UNCHANGED <<query, ti, q, visited, emitted, run, first>>
    /\ UNCHANGED cvars

\* Variant of InteriorReturn that may return without following the
\* right-most pointer.
InteriorReturnEarly ==
    /\ pc = "scan" /\ stack # <<>>
    /\ TopPage.PageType = InteriorTableType
    /\ Top.i > Len(TopPage.Cells)
    /\ stack' = Pop
    /\ UNCHANGED <<query, ti, pc, q, out, loads, visited, emitted, run, first>>
    /\ UNCHANGED cvars

\* queryTable returns nil from an interior page.
InteriorReturn ==
    /\ pc = "scan" /\ stack # <<>>
    /\ TopPage.PageType = InteriorTableType
    /\ \/ Top.i = Len(TopPage.Cells) + 1 /\ TopPage.RightMostPointer <= 0
       \/ Top.i > Len(TopPage.Cells) + 1
    /\ stack' = Pop
    /\ UNCHANGED <<query, ti, pc, q, out, loads, visited, emitted, run, first>>
    /\ UNCHANGED cvars

\* queryTable on a page that is neither a table leaf nor a table interior.
OtherPage ==
    /\ pc = "scan" /\ stack # <<>>
    /\ TopPage.PageType \notin {LeafTableType, InteriorTableType}
    /\ stack' = Pop
    /\ UNCHANGED <<query, ti, pc, q, out, loads, visited, emitted, run, first>>
    /\ UNCHANGED cvars

\* HandleSelect after queryTable returned nil: print the count or the rows.
Output ==
    /\ pc = "scan" /\ stack = <<>>
    /\ out' = Append(out,
                 IF query.IsCount
                 THEN Printed("count", q.tableName, Itoa(q.count), NoError)
                 ELSE Printed("rows", q.tableName, Join(q.data, Newline), NoError))
    /\ ti' = ti + 1
    /\ pc' = "select"
    /\ UNCHANGED <<query, q, stack, loads, visited, emitted, run, first>>
    /\ UNCHANGED cvars

\* HandleSelect returns after the last table.
Finish ==
    /\ pc = "select"
    /\ ti > Len(query.Tables)
    /\ pc' = "done"
    /\ UNCHANGED <<query, ti, q, stack, out, loads, visited, emitted, run, first>>
    /\ UNCHANGED cvars

\* The program is run a second time on the same file.
Rerun ==
    /\ pc \in {"done", "panic"}
    /\ run = 1
    /\ first' = [set |-> TRUE, query |-> query, out |-> out, pc |-> pc]
    /\ run' = 2
    /\ query' \in Twins(query)
    /\ ti' = 1
    /\ pc' = "select"
    /\ q' = NoContext
    /\ stack' = <<>>
    /\ out' = <<>>
    /\ loads' = <<>>
    /\ visited' = <<>>
    /\ emitted' = <<>>
    /\ UNCHANGED cvars

Next ==
    \/ SelectTable
    \/ LeafCell
    \/ LeafReturn
    \/ InteriorChild
    \/ InteriorRightMost
    \/ InteriorReturn
    \/ OtherPage
    \/ Output
    \/ Finish
    \/ Rerun

Spec == Init /\ [][Next]_vars

(***************************************************************************)
(* Reference notions used by the properties.                               *)
(***************************************************************************)
IsPrefix(a, b) == Len(a) <= Len(b) /\ SubSeq(b, 1, Len(a)) = a

RECURSIVE InOrder(_)
RECURSIVE InOrderChildren(_, _)
\* In-order walk of the table B-tree rooted at page pn, as the sequence of
\* its leaf cells <<page, index>>: the left children of the interior cells
\* in cell order, then the right-most child; a leaf gives its cells in
\* cell-pointer-array order.
InOrder(pn) ==
    IF pn \notin DOMAIN File THEN <<>>
    ELSE IF File[pn].PageType = LeafTableType
    THEN [i \in 1..Len(File[pn].Cells) |-> <<pn, i>>]
    ELSE IF File[pn].PageType = InteriorTableType
    THEN InOrderChildren(pn, 1)
         \o (IF File[pn].RightMostPointer > 0
             THEN InOrder(File[pn].RightMostPointer) ELSE <<>>)
    ELSE <<>>
InOrderChildren(pn, i) ==
    IF i > Len(File[pn].Cells) THEN <<>>
    ELSE (IF File[pn].Cells[i].LeftPageNumber > 0
          THEN InOrder(File[pn].Cells[i].LeftPageNumber) ELSE <<>>)
         \o InOrderChildren(pn, i + 1)

\* Position of leaf cell x in the sequence s (0 when absent).
PositionIn(s, x) ==
    IF \E i \in 1..Len(s) : s[i] = x THEN CHOOSE i \in 1..Len(s) : s[i] = x ELSE 0

\* The row lines of one printed result (none for the empty result).
Lines(text) == IF text = <<>> THEN <<>> ELSE Split(text, 10)

ScanReturned == pc = "scan" /\ stack = <<>>
Ended == pc \in {"done", "panic"}

(***************************************************************************)
(* C1: the scan of a table reaches and emits rows in the in-order walk of  *)
(* its B-tree: left child of cell i before left child of cell i+1, the     *)
(* right-most child last, leaf cells in cell-pointer-array order.  The     *)
(* cells handled so far are a prefix of the walk, the emitted cells keep   *)
(* the order of the walk, an unlimited scan that returns has handled the   *)
(* whole walk, and without predicates the COUNT form emits all of it.   *)
(***************************************************************************)
C1_InOrderScan ==
    loads # <<>> =>
        LET walk == InOrder(loads[1])
        IN /\ IsPrefix(visited, walk)
           /\ \A i, j \in 1..Len(emitted) :
                 i < j => /\ PositionIn(walk, emitted[i]) > 0
                          /\ PositionIn(walk, emitted[i]) < PositionIn(walk, emitted[j])
           /\ q.count = Len(emitted)
           /\ ~query.IsCount => Len(q.data) = Len(emitted)
           /\ (ScanReturned /\ query.Limit = 0) => visited = walk
           /\ (ScanReturned /\ query.Limit = 0 /\ query.IsCount
                  /\ DOMAIN query.Constraint = {}) => emitted = walk

\* An unlimited COUNT scan of table "a" has returned after emitting the
\* rows of the left children (one of them interior) and of the right-most
\* child.
C1_Witness ==
    /\ ScanReturned /\ query.Limit = 0 /\ query.IsCount
    /\ DOMAIN query.Constraint = {}
    /\ loads # <<>> /\ loads[1] = 2
    /\ emitted = <<<<3, 1>>, <<3, 2>>, <<10, 1>>, <<11, 1>>, <<5, 1>>>>

(***************************************************************************)
(* C2: with a limit L > 0 the number of emitted rows never exceeds L, and  *)
(* the rows printed for a table are a prefix of the rows the same query    *)
(* prints for that table with limit 0.                                     *)
(***************************************************************************)
C2_LimitPrefix ==
    /\ query.Limit > 0 =>
          /\ q.count <= query.Limit
          /\ Len(q.data) <= query.Limit
          /\ Len(emitted) <= query.Limit
          /\ \A i \in 1..Len(out) :
                out[i].kind = "rows" => Len(Lines(out[i].text)) <= query.Limit
    /\ (run = 2 /\ Ended /\ first.query.Limit > 0
           /\ query = [first.query EXCEPT !.Limit = 0]) =>
          \A i \in 1..Len(first.out) :
             (first.out[i].kind = "rows" /\ i <= Len(out)) =>
                 IsPrefix(Lines(first.out[i].text),
                          IF out[i].kind = "rows" THEN Lines(out[i].text) ELSE <<>>)

\* A limited scan printed exactly L rows and the unlimited rerun printed
\* more rows for the same table.
C2_Witness ==
    /\ run = 2 /\ Ended /\ first.query.Limit > 0
    /\ query = [first.query EXCEPT !.Limit = 0]
    /\ \E i \in 1..Len(first.out) :
          /\ first.out[i].kind = "rows" /\ i <= Len(out) /\ out[i].kind = "rows"
          /\ Len(Lines(first.out[i].text)) = first.query.Limit
          /\ Len(Lines(out[i].text)) > first.query.Limit

(***************************************************************************)
(* C3: once the emitted count has reached a nonzero limit, the scan of     *)
(* that table loads no further page (and so decodes no further cell).      *)
(***************************************************************************)
C3_HaltedAtLimit ==
    [][(pc = "scan" /\ LimitReached(q, query)) => loads' = loads]_vars

\* The cell of a recorded leaf position, and the column map of the table
\* being scanned.
CellAt(e) == File[e[1]].Cells[e[2]]
CurrentColumns == q.rootCell.ColumnMap

(***************************************************************************)
(* C4: the integer printed by the COUNT form of a query equals the number  *)
(* of row lines printed by the same query with a column projection (both   *)
(* without LIMIT), whatever the rows contain.                              *)
(***************************************************************************)
C4_CountEqualsRows ==
    (/\ run = 2 /\ Ended
     /\ ~first.query.IsCount /\ first.query.Limit = 0
     /\ query = NewSelectCtx(first.query.Tables, <<CountIdent>>,
                             first.query.Constraint, first.query.Limit)) =>
        \A i \in 1..Len(first.out) :
           (first.out[i].kind = "rows" /\ i <= Len(out) /\ out[i].kind = "count") =>
               Atoi(out[i].text) = Len(Lines(first.out[i].text))

(***************************************************************************)
(* C5: every emitted row line holds exactly one value for each requested   *)
(* projection identifier, joined by the pipe byte.                         *)
(***************************************************************************)
C5_OneValuePerIdentifier ==
    ~query.IsCount =>
        \A n \in 1..Len(q.data) :
           Len(Split(q.data[n], 124)) = Len(query.Identifiers)

\* The stored field at 0-based position idx of cell c is NULL.
IsNullField(c, idx) == idx < Len(c.Header) /\ c.Header[idx + 1].Type = 0

\* The predicate (k, v) holds for cell c: the decoded field of column k,
\* rendered as a string and lowercased, equals v; a NULL field has no
\* rendering, except that the row id stands for a NULL id.
PredicateHolds(c, k, v, columns) ==
    /\ k \in DOMAIN columns
    /\ IF IsNullField(c, columns[k])
       THEN k = ColId /\ Itoa(c.RowID) = v
       ELSE LET r == ReadDataFromHeaderIndex(c, columns[k])
            IN ~r.panic /\ ~r.err /\ ToLower(Sprintv(r.val)) = v

(***************************************************************************)
(* C6: a leaf row is emitted or counted only if every predicate holds for  *)
(* it; a row whose field is NULL, compared against a literal such as 0,    *)
(* is never emitted or counted.                                            *)
(***************************************************************************)
C6_OnlyMatchingRows ==
    pc = "scan" =>
    \A n \in 1..Len(emitted) :
       \A k \in DOMAIN query.Constraint :
          PredicateHolds(CellAt(emitted[n]), k, query.Constraint[k], CurrentColumns)

(***************************************************************************)
(* C7: the row id stands for a field exactly when the column is id and     *)
(* the stored field is NULL: the predicate id = k matches the row whose    *)
(* row id is k when id is stored as NULL, and a NULL field of another      *)
(* column is never replaced by the row id.                                 *)
(***************************************************************************)
C7_RowIDSubstitution ==
    /\ (/\ ScanReturned /\ query.Limit = 0 /\ query.IsCount
        /\ DOMAIN query.Constraint = {ColId}) =>
           \A n \in 1..Len(visited) :
              (/\ IsNullField(CellAt(visited[n]), CurrentColumns[ColId])
               /\ Itoa(CellAt(visited[n]).RowID) = query.Constraint[ColId]) =>
                  \E m \in 1..Len(emitted) : emitted[m] = visited[n]
    /\ (/\ pc = "scan" /\ ~query.IsCount /\ Len(query.Identifiers) = 1
        /\ Len(q.data) = Len(emitted)) =>
           LET k == query.Identifiers[1]
           IN (k # ColId /\ k \in DOMAIN CurrentColumns
                  /\ k \notin DOMAIN query.Constraint) =>
                 \A n \in 1..Len(emitted) :
                    IsNullField(CellAt(emitted[n]), CurrentColumns[k]) =>
                       q.data[n] # Itoa(CellAt(emitted[n]).RowID)

\* The query names, in a predicate or (outside COUNT mode) in the
\* projection, a column absent from the column map of table t.
AbsentPredicate(qry, t) ==
    \E k \in DOMAIN qry.Constraint : k \notin DOMAIN Tables[t].ColumnMap
AbsentProjection(qry, t) ==
    /\ ~qry.IsCount
    /\ \E i \in 1..Len(qry.Identifiers) :
          qry.Identifiers[i] \notin DOMAIN Tables[t].ColumnMap
NamesAbsentColumn(qry, t) ==
    t \in DOMAIN Tables /\ (AbsentPredicate(qry, t) \/ AbsentProjection(qry, t))

FirstAbsentIdentifier(qry, columns) ==
    qry.Identifiers[CHOOSE i \in 1..Len(qry.Identifiers) :
        /\ qry.Identifiers[i] \notin DOMAIN columns
        /\ \A j \in 1..(i - 1) : qry.Identifiers[j] \in DOMAIN columns]

\* The predicates of the query on columns the table has.
KnownPredicates(columns) ==
    [k \in {x \in DOMAIN query.Constraint : x \in DOMAIN columns} |->
        query.Constraint[k]]

\* Cell c passes every predicate on a known column (all their columns
\* being known, the order of evaluation does not matter).
PassesKnownPredicates(c) ==
    LET known == KnownPredicates(CurrentColumns)
    IN handleQueryConstraint(CHOOSE o \in KeyOrders(known) : TRUE, c, q, known).ok

LastOut == out[Len(out)]

C9_LaterTablesStillScanned ==
    pc = "done" => Len(out) = Len(query.Tables)

(***************************************************************************)
(* C10: two runs of the same query over the same file print the same       *)
(* output and end the same way (compared here line by line on what kind    *)
(* of line is printed for which table and on the result text, the wording  *)
(* of an error message aside).                                             *)
(***************************************************************************)
PrintedLines(o) == [i \in 1..Len(o) |-> <<o[i].kind, o[i].table, o[i].text>>]

C10_Deterministic ==
    (run = 2 /\ Ended /\ query = first.query) =>
        PrintedLines(out) = PrintedLines(first.out) /\ pc = first.pc

(***************************************************************************)
(* The file layer.  A file is its size and its bytes by offset (a byte     *)
(* below the size that is not listed is 0), so that files of several       *)
(* pages are described without spelling every byte out.                    *)
(***************************************************************************)
Min(a, b) == IF a < b THEN a ELSE b

\* The bytes `bytes` laid at offsets off, off + 1, ...
Place(off, bytes) == [o \in off..(off + Len(bytes) - 1) |-> bytes[o - off + 1]]

\* A file of `size` bytes holding `bytesAt` (cut at the end of the file).
MakeFile(size, bytesAt) ==
    [size |-> size,
     at |-> [o \in {x \in DOMAIN bytesAt : x < size} |-> bytesAt[o]]]

FileByte(f, o) == IF o \in DOMAIN f.at THEN f.at[o] ELSE 0

\* f.Seek(pos, io.SeekStart) followed by f.Read(buf) with len(buf) = n, as
\* os.File.Read behaves: (0, nil) for an empty buffer, (0, io.EOF) at or
\* past the end of the file, and otherwise the bytes that are there, up to
\* n of them, with a nil error.  The rest of the buffer stays zero.
Read(f, pos, n) ==
    [err |-> n > 0 /\ pos >= f.size,
     base |-> pos,
     got |-> IF n = 0 \/ pos >= f.size THEN 0 ELSE Min(n, f.size - pos),
     len |-> n]

\* buf[i], and buf[lo:hi], of the buffer b filled by Read from file f.
BufByte(f, b, i) == IF i < b.got THEN FileByte(f, b.base + i) ELSE 0
Slice(f, b, lo, hi) == [i \in 1..(hi - lo) |-> BufByte(f, b, lo + i - 1)]

RECURSIVE BigEndianUnsigned(_)
\* readBigEndianInt into an unsigned integer as wide as the slice.
BigEndianUnsigned(data) ==
    IF Len(data) = 0 THEN 0
    ELSE 256 * BigEndianUnsigned(SubSeq(data, 1, Len(data) - 1)) + data[Len(data)]

(***************************************************************************)
(* newDatabaseHeader.                                                      *)
(***************************************************************************)
\* "SQLite format 3\000"
DatabaseHeaderString ==
    <<83, 81, 76, 105, 116, 101, 32, 102, 111, 114, 109, 97, 116, 32, 51, 0>>
MaxEmbeddedPayloadFraction == 64
MinEmbeddedPayloadFraction == 32
LeafPayloadFraction == 32
DatabaseHeaderSize == 100

NoHeader == [HeaderString |-> <<>>]
HeaderError(why) == [err |-> why, h |-> NoHeader]

\* Variant of newDatabaseHeader that accepts any text encoding.
newDatabaseHeaderAnyEncoding(f) ==
    LET headerBuf == Read(f, 0, DatabaseHeaderSize)
        U(lo, hi) == BigEndianUnsigned(Slice(f, headerBuf, lo, hi))
    IN IF headerBuf.err \/ Slice(f, headerBuf, 0, 16) # DatabaseHeaderString
          \/ U(21, 22) # MaxEmbeddedPayloadFraction
          \/ U(22, 23) # MinEmbeddedPayloadFraction
          \/ U(23, 24) # LeafPayloadFraction
          \/ U(44, 48) < 1 \/ U(44, 48) > 4
       THEN HeaderError("invalid")
       ELSE [err |-> "none",
             h |-> [HeaderString |-> Slice(f, headerBuf, 0, 16),
                    PageSize |-> U(16, 18), WriteFileFormat |-> U(18, 19),
                    ReadFileFormat |-> U(19, 20), ReservedPageSpace |-> U(20, 21),
                    SchemaFormat |-> U(44, 48), TextEncoding |-> U(56, 60)]]

\* newDatabaseHeader: the header, or the error, read from the start of f.
\* The count returned by f.Read is dropped.
newDatabaseHeader(f) ==
    LET headerBuf == Read(f, 0, DatabaseHeaderSize)
        U(lo, hi) == BigEndianUnsigned(Slice(f, headerBuf, lo, hi))
        HeaderString == Slice(f, headerBuf, 0, 16)
    IN IF headerBuf.err THEN HeaderError("read")
       ELSE IF HeaderString # DatabaseHeaderString THEN HeaderError("magic")
       ELSE IF U(21, 22) # MaxEmbeddedPayloadFraction THEN HeaderError("maxfraction")
       ELSE IF U(22, 23) # MinEmbeddedPayloadFraction THEN HeaderError("minfraction")
       ELSE IF U(23, 24) # LeafPayloadFraction THEN HeaderError("leaffraction")
       ELSE IF U(44, 48) < 1 \/ U(44, 48) > 4 THEN HeaderError("schemaformat")
       ELSE IF U(56, 60) < 1 \/ U(56, 60) > 3 THEN HeaderError("textencoding")
       ELSE [err |-> "none",
             h |-> [HeaderString |-> HeaderString,
                    PageSize |-> U(16, 18),
                    WriteFileFormat |-> U(18, 19),
                    ReadFileFormat |-> U(19, 20),
                    ReservedPageSpace |-> U(20, 21),
                    MaxEmbeddedPayloadFraction |-> U(21, 22),
                    MinEmbeddedPayloadFraction |-> U(22, 23),
                    LeafPayloadFraction |-> U(23, 24),
                    FileChangeCounter |-> U(24, 28),
                    DatabasePageSize |-> U(28, 32),
                    FirstFreeListTrunk |-> U(32, 36),
                    NumberOfFreeListPages |-> U(36, 40),
                    SchemaCookie |-> U(40, 44),
                    SchemaFormat |-> U(44, 48),
                    PageCacheSize |-> U(48, 52),
                    LargestPageInVMode |-> U(52, 56),
                    TextEncoding |-> U(56, 60),
                    UserVersionPragma |-> U(60, 64),
                    IncrementalVMode |-> U(64, 68),
                    ApplicationID |-> U(68, 72),
                    ReservedSpace |-> U(72, 80),
                    VersionValidfor |-> U(92, 96),
                    SqliteVersion |-> U(96, 100)]]

\* The SELECT executor at rest, while a single call is under study.
SelectIdle ==
    /\ query = NewSelectCtx(<<>>, <<CountIdent>>, <<>>, 0)
    /\ ti = 1
    /\ pc = "idle"
    /\ q = NoContext
    /\ stack = <<>>
    /\ out = <<>>
    /\ loads = <<>>
    /\ visited = <<>>
    /\ emitted = <<>>
    /\ run = 1
    /\ first = [set |-> FALSE, query |-> query, out |-> <<>>, pc |-> "idle"]

\* The first bytes of a file by the header fields they spell.
HeaderBytes(magic, pageSize, writeFormat, maxF, minF, leafF, schemaFormat, textEncoding) ==
    Place(0, magic) @@ Place(16, pageSize) @@ Place(18, <<writeFormat, 1, 0>>)
    @@ Place(21, <<maxF, minF, leafF>>) @@ Place(44, schemaFormat)
    @@ Place(56, textEncoding) @@ Place(96, <<0, 46, 90, 112>>)

\* Files handed to newDatabaseHeader: sizes on both sides of every
\* validated field and of byte 100, valid and invalid values of every
\* validated field, and arbitrary values of fields that are only captured.
HeaderSizes == {0, 15, 16, 59, 60, 99, 100, 512}
HeaderMagics ==
    {DatabaseHeaderString,
     [DatabaseHeaderString EXCEPT ![16] = 1],
     [DatabaseHeaderString EXCEPT ![1] = 115]}
HeaderPageSizes == {<<2, 0>>, <<0, 1>>, <<0, 0>>}
HeaderSchemaFormats ==
    {<<0, 0, 0, 0>>, <<0, 0, 0, 1>>, <<0, 0, 0, 4>>, <<0, 0, 0, 5>>, <<0, 0, 1, 1>>}
HeaderTextEncodings ==
    {<<0, 0, 0, 0>>, <<0, 0, 0, 1>>, <<0, 0, 0, 3>>, <<0, 0, 0, 4>>, <<1, 0, 0, 2>>}

HeaderInit ==
    /\ SelectIdle
    /\ \E size \in HeaderSizes, magic \in HeaderMagics, ps \in HeaderPageSizes,
          wf \in {1, 9}, maxF \in {64, 63}, minF \in {32, 0}, leafF \in {32, 33},
          sf \in HeaderSchemaFormats, te \in HeaderTextEncodings :
          call = [op |-> "newDatabaseHeader",
                  f |-> MakeFile(size, HeaderBytes(magic, ps, wf, maxF, minF,
                                                   leafF, sf, te))]
    /\ ret = NoCall

\* The call of newDatabaseHeader on the file.
OpenHeader ==
    /\ call.op = "newDatabaseHeader" /\ ret = NoCall
    /\ ret' = newDatabaseHeader(call.f)
    /\ UNCHANGED <<call, svars>>

HeaderNext == OpenHeader

HeaderSpec == HeaderInit /\ [][HeaderNext]_vars

\* The byte of f at offset o, or -1 where the file has no such byte.
ByteOfFile(f, o) == IF o < f.size THEN FileByte(f, o) ELSE -1

\* The validated fields of the header, read off the bytes of the file: the
\* magic, the three payload fractions, the schema format and the text
\* encoding (four-byte big-endian numbers).
HeaderFieldsValid(f) ==
    /\ \A o \in 0..15 : ByteOfFile(f, o) = DatabaseHeaderString[o + 1]
    /\ ByteOfFile(f, 21) = 64 /\ ByteOfFile(f, 22) = 32 /\ ByteOfFile(f, 23) = 32
    /\ \A o \in 44..46 : ByteOfFile(f, o) = 0
    /\ ByteOfFile(f, 47) \in 1..4
    /\ \A o \in 56..58 : ByteOfFile(f, o) = 0
    /\ ByteOfFile(f, 59) \in 1..3

HeaderReturned == call.op = "newDatabaseHeader" /\ ret # NoCall

(***************************************************************************)
(* C11: newDatabaseHeader succeeds if and only if the magic, the three     *)
(* payload fractions, the schema format and the text encoding of the file  *)
(* are valid; the other fields are captured as they are and never make it  *)
(* fail; on failure no header value is returned.                           *)
(***************************************************************************)
C11_HeaderValidation ==
    HeaderReturned =>
        /\ (ret.err = "none") <=> HeaderFieldsValid(call.f)
        /\ ret.err # "none" => ret.h = NoHeader
        /\ ret.err = "none" =>
              /\ ret.h.PageSize = 256 * FileByte(call.f, 16) + FileByte(call.f, 17)
              /\ ret.h.WriteFileFormat = FileByte(call.f, 18)

\* A header with page size 0 and write format 9 was accepted.
C11_Witness ==
    /\ HeaderReturned /\ ret.err = "none"
    /\ ret.h.PageSize = 0 /\ ret.h.WriteFileFormat = 9

(***************************************************************************)
(* C13: opening a file that ends before byte 100 fails: no header is       *)
(* built from fewer than 100 bytes read.                                   *)
(***************************************************************************)
C13_ShortReadFails ==
    (HeaderReturned /\ call.f.size < DatabaseHeaderSize) => ret.err # "none"

(***************************************************************************)
(* readVarint, on int64 values kept as their 64 bits so that shifts lose   *)
(* the bits they lose in the code.                                         *)
(***************************************************************************)
RECURSIVE ReadVarintLoopNinthMasked(_, _, _)
ReadVarintLoopNinthMasked(buf, i, varint) ==
    IF i >= Len(buf) THEN [value |-> varint, read |-> i]
    ELSE LET bb == buf[i + 1]
             v == ShiftOr(varint, 7, bb % 128)
         IN IF i = 8 \/ bb < 128 THEN [value |-> v, read |-> i + 1]
            ELSE ReadVarintLoopNinthMasked(buf, i + 1, v)

\* Variant of readVarint that takes seven bits of the ninth byte too.
readVarintNinthMasked(buf) == ReadVarintLoopNinthMasked(buf, 0, Zero64)

RECURSIVE ReadVarintLoop(_, _, _)
\* The loop of readVarint from its i-th turn (0-based) on.
ReadVarintLoop(buf, i, varint) ==
    IF i >= Len(buf) THEN [value |-> varint, read |-> i]
    ELSE LET bb == buf[i + 1]
         IN IF i = 8
            THEN [value |-> ShiftOr(varint, 8, bb), read |-> i + 1]
            ELSE LET v == ShiftOr(varint, 7, bb % 128)
                 IN IF bb < 128 THEN [value |-> v, read |-> i + 1]
                    ELSE ReadVarintLoop(buf, i + 1, v)

\* readVarint: the decoded int64 and the number of bytes consumed.
readVarint(buf) == ReadVarintLoop(buf, 0, Zero64)

\* The SQLite varint encoding of the 64 bits u: up to eight bytes of seven
\* bits with the high bit set on all but the last when u < 2^56, and
\* otherwise eight such bytes, all with the high bit set, followed by a
\* ninth byte holding the low eight bits.
Group7(u, g) == BitsToNat(SubSeq(u, 7 * g + 2, 7 * g + 8))
\* (groups g = 1..8 of the low 56 bits, most significant first)
EncodeVarint(u) ==
    IF \E j \in 1..8 : u[j] = 1
    THEN [j \in 1..9 |->
             IF j = 9 THEN BitsToNat(SubSeq(u, 57, 64))
             ELSE 128 + BitsToNat(SubSeq(u, 7 * j - 6, 7 * j))]
    ELSE LET lead == {g \in 1..8 : Group7(u, g) # 0}
             from == IF lead = {} THEN 8
                     ELSE CHOOSE g \in lead : \A h \in lead : g <= h
         IN [j \in 1..(9 - from) |->
               (IF j = 9 - from THEN 0 ELSE 128) + Group7(u, from + j - 1)]

\* 64-bit values: powers of two, their predecessors, and both with the low
\* byte of all ones or with only its high bit, over every bit position.
VarintValues ==
    LET P(k) == [i \in 1..Int64Bits |-> IF i = Int64Bits - k THEN 1 ELSE 0]
        M(k) == [i \in 1..Int64Bits |-> IF i > Int64Bits - k THEN 1 ELSE 0]
        Or(a, b) == [i \in 1..Int64Bits |-> IF a[i] = 1 \/ b[i] = 1 THEN 1 ELSE 0]
    IN {P(k) : k \in 0..63} \cup {M(k) : k \in 0..64}
       \cup {Or(P(k), M(8)) : k \in 8..63} \cup {Or(P(k), P(7)) : k \in 8..63}
       \cup {Or(M(k), [P(7) EXCEPT ![1] = 1]) : k \in 0..8}

VarintInit ==
    /\ SelectIdle
    /\ \E u \in VarintValues, rest \in {<<>>, <<0>>, <<255, 1>>} :
          call = [op |-> "readVarint", u |-> u, rest |-> rest]
    /\ ret = NoCall

\* The call of readVarint on the encoding of u followed by other bytes.
DecodeVarint ==
    /\ call.op = "readVarint" /\ ret = NoCall
    /\ ret' = readVarint(EncodeVarint(call.u) \o call.rest)
    /\ UNCHANGED <<call, svars>>

VarintNext == DecodeVarint

VarintSpec == VarintInit /\ [][VarintNext]_vars

(***************************************************************************)
(* C15: readVarint applied to the varint encoding of a 64-bit value u      *)
(* returns the 64 bits of u and a consumed count equal to the length of    *)
(* the encoding, which lies in 1..9; the ninth byte of a nine-byte         *)
(* encoding contributes all its eight bits.                                *)
(***************************************************************************)
C15_VarintRoundTrip ==
    (call.op = "readVarint" /\ ret # NoCall) =>
        /\ ret.value = call.u
        /\ ret.read = Len(EncodeVarint(call.u))
        /\ ret.read \in 1..9

\* A nine-byte encoding whose ninth byte has its high bit set was decoded.
C15_Witness ==
    /\ call.op = "readVarint" /\ ret # NoCall
    /\ Len(EncodeVarint(call.u)) = 9
    /\ EncodeVarint(call.u)[9] >= 128
    /\ ret.read = 9 /\ ret.value[57] = 1

(***************************************************************************)
(* Decoding of the 24-bit and 48-bit integer fields.                       *)
(***************************************************************************)
\* Byte values on both sides of the sign bit.
SerialBytes == {0, 1, 127, 128, 255}

\* Byte strings of length n over SerialBytes.
RECURSIVE BytesOfLength(_)
BytesOfLength(n) ==
    IF n = 0 THEN {<<>>}
    ELSE {<<b>> \o t : b \in SerialBytes, t \in BytesOfLength(n - 1)}

\* A cell whose record holds a one-byte integer followed by one field of
\* serial type 3 or 5; the field at index 1 is read.
SerialInit ==
    /\ SelectIdle
    /\ \E t \in {3, 5} :
          \E data \in BytesOfLength(newCellHeader(t).Size) :
             call = [op |-> "ReadDataFromHeaderIndex",
                     c |-> LeafTableCell(1, <<1, t>>, <<7>> \o data),
                     headerIdx |-> 1]
    /\ ret = NoCall

\* The call of ReadDataFromHeaderIndex on the cell.
DecodeField ==
    /\ call.op = "ReadDataFromHeaderIndex" /\ ret = NoCall
    /\ ret' = ReadDataFromHeaderIndex(call.c, call.headerIdx)
    /\ UNCHANGED <<call, svars>>

SerialNext == DecodeField

SerialSpec == SerialInit /\ [][SerialNext]_vars

\* The bytes of the field read, and its serial type.
FieldBytes == SubSeq(call.c.Data, 2, Len(call.c.Data))
FieldType == call.c.Header[2].Type

(***************************************************************************)
(* C16: a field of serial type 3 or 5 decodes to the two's-complement      *)
(* value of its 24-bit or 48-bit big-endian pattern: negative, with every  *)
(* bit above the field width set, when the top bit of the leftmost byte    *)
(* is set, and the unsigned value of the pattern when it is clear.  The    *)
(* 48-bit value is read as H * 2^24 + L, H the signed number its upper     *)
(* three bytes spell and L the unsigned number of the lower three.         *)
(***************************************************************************)
C16_SignExtension ==
    (call.op = "ReadDataFromHeaderIndex" /\ ret # NoCall) =>
        /\ ~ret.panic /\ ~ret.err
        /\ FieldType = 3 =>
              /\ ret.val.kind = "int"
              /\ ret.val.n = BigEndianSigned(FieldBytes)
              /\ (ret.val.n < 0) <=> (FieldBytes[1] >= 128)
              /\ FieldBytes[1] < 128 => ret.val.n = BigEndianUnsigned(FieldBytes)
        /\ FieldType = 5 =>
              /\ ret.val.kind = "int64"
              /\ \A i \in 1..17 : ret.val.s[i] = (IF FieldBytes[1] >= 128 THEN 1 ELSE 0)
              /\ BitsToNat(SubSeq(ret.val.s, 18, 40))
                    - (IF ret.val.s[17] = 1 THEN 8388608 ELSE 0)
                 = BigEndianSigned(SubSeq(FieldBytes, 1, 3))
              /\ BitsToNat(SubSeq(ret.val.s, 41, 64))
                 = BigEndianUnsigned(SubSeq(FieldBytes, 4, 6))

\* A 48-bit field with the top bit set was decoded to a negative int64.
C16_Witness ==
    /\ call.op = "ReadDataFromHeaderIndex" /\ ret # NoCall
    /\ FieldType = 5 /\ FieldBytes[1] = 128 /\ FieldBytes[6] = 1
    /\ ret.val.s[1] = 1

(***************************************************************************)
(* Cells decoded from the bytes of a page: newCell and the parsers it      *)
(* dispatches to.  A result is [panic, err, c]; err is "none" or the       *)
(* reason of the error returned.                                           *)
(***************************************************************************)
NoCell == [Offset |-> -1]
CellOk(c) == [panic |-> FALSE, err |-> "none", c |-> c]
CellError(why) == [panic |-> FALSE, err |-> why, c |-> NoCell]
CellPanic == [panic |-> TRUE, err |-> "none", c |-> NoCell]

\* readVarint(buf[offset:]) on the buffer b: at most nine bytes are looked at.
readVarintAt(f, b, offset) ==
    readVarint(Slice(f, b, offset, Min(offset + 9, b.len)))

RECURSIVE readVarintsFrom(_, _)
\* The loop of readVarints from index i on: readVarint(data[i:]), i += read.
readVarintsFrom(data, i) ==
    IF i >= Len(data) THEN <<>>
    ELSE LET v == readVarint(SubSeq(data, i + 1, Min(i + 9, Len(data))))
         IN <<v.value>> \o readVarintsFrom(data, i + v.read)

\* readVarints: the varints that fill data, one after the other.
readVarints(data) == readVarintsFrom(data, 0)

\* The record part shared by parseLeafTableCell, parseLeafIndexCell and
\* parseInteriorIndexCell: header length at `offset`, serial types, data
\* and the four bytes after them.
parseRecord(f, b, payloadLength, offset, c) ==
    LET headerLength == readVarintAt(f, b, offset).value
        HeaderSize == BitsToNat(SubSeq(headerLength, 57, Int64Bits))
        headerBuf == Slice(f, b, offset, offset + HeaderSize)
        dataAt == offset + HeaderSize
        PayloadSize == Num(payloadLength) - HeaderSize
        variants == readVarints(SubSeq(headerBuf, 2, HeaderSize))
    IN IF offset >= b.len \/ offset + HeaderSize > b.len THEN CellError("EOF")
       ELSE IF HeaderSize = 0 THEN CellPanic            \* headerBuf[1:]
       ELSE IF PayloadSize < 0 THEN CellPanic           \* make([]byte, 2^64 - n)
       ELSE IF dataAt >= b.len \/ dataAt + PayloadSize > b.len THEN CellError("EOF")
       ELSE IF dataAt + PayloadSize + 4 > b.len THEN CellPanic
       ELSE CellOk([c EXCEPT
               !.HeaderSize = HeaderSize,
               !.PayloadSize = PayloadSize,
               !.Header = [j \in 1..Len(variants) |-> newCellHeader(Num(variants[j]))],
               !.Data = Slice(f, b, dataAt, dataAt + PayloadSize),
               !.FirstOverflow =
                   BigEndianUnsigned(Slice(f, b, dataAt + PayloadSize,
                                           dataAt + PayloadSize + 4))])

parseLeafTableCell(f, b, c) ==
    LET payloadLength == readVarintAt(f, b, 0)
        rowID == readVarintAt(f, b, payloadLength.read)
    IN parseRecord(f, b, payloadLength.value, payloadLength.read + rowID.read,
                   [c EXCEPT !.RowID = Num(rowID.value)])

parseInteriorTableCell(f, b, c) ==
    IF b.len < 4 THEN CellPanic                          \* buf[:4], buf[4:]
    ELSE CellOk([c EXCEPT
            !.LeftPageNumber = BigEndianUnsigned(Slice(f, b, 0, 4)),
            !.RowID = Num(readVarintAt(f, b, 4).value)])

parseLeafIndexCell(f, b, c) ==
    LET payloadLength == readVarintAt(f, b, 0)
    IN parseRecord(f, b, payloadLength.value, payloadLength.read, c)

parseInteriorIndexCell(f, b, c) ==
    IF b.len < 4 THEN CellPanic
    ELSE LET payloadLength == readVarintAt(f, b, 4)
         IN parseRecord(f, b, payloadLength.value, 4 + payloadLength.read,
                [c EXCEPT !.LeftPageNumber = BigEndianUnsigned(Slice(f, b, 0, 4))])

\* cellOffset of newCell: the file offset the cell is read at, for the
\* pointer `offset` of page p (0 stands for the start of the cell content).
CellFileOffset(p, offset) ==
    (IF offset = 0 THEN p.Header.CellContent ELSE offset)
    + (IF p.Offset # DatabaseHeaderSize THEN p.Offset ELSE 0)

\* newCell: the cell at pointer `offset` of page p.
newCell(f, p, offset) ==
    LET cellOffset == CellFileOffset(p, offset)
        buf == Read(f, cellOffset, p.PageSize)
        c == [Offset |-> IF offset = 0 THEN p.Header.CellContent ELSE offset,
              PageType |-> p.Header.PageType, LeftPageNumber |-> 0,
              HeaderSize |-> 0, PayloadSize |-> 0, FirstOverflow |-> 0,
              RowID |-> 0, ColumnMap |-> <<>>, Header |-> <<>>, Data |-> <<>>]
    IN IF offset = 0 /\ p.Header.CellContent <= 0 THEN CellError("offset0")
       ELSE IF buf.err THEN CellError("EOF")
       ELSE CASE p.Header.PageType = LeafTableType -> parseLeafTableCell(f, buf, c)
              [] p.Header.PageType = InteriorTableType -> parseInteriorTableCell(f, buf, c)
              [] p.Header.PageType = LeafIndexType -> parseLeafIndexCell(f, buf, c)
              [] p.Header.PageType = InteriorIndexType -> parseInteriorIndexCell(f, buf, c)
              [] OTHER -> CellError("unknowntype")

(***************************************************************************)
(* Pages loaded from the bytes of the file: newPageHeader, newPage,        *)
(* newDatabaseFile and newPageFromNumber.  The result of a load also       *)
(* records where the file was read: the offset of the page header, the     *)
(* kind byte found there, and for each cell the pointer, the file offset   *)
(* of the read and the length of the buffer.                               *)
(***************************************************************************)
DefaultPageHeaderSize == 8
InteriorPageHeaderOffset == 4

NoPageHeader == [PageType |-> -1]

\* newPageHeader: the header read at `offset`, and the file position after it.
newPageHeader(f, offset) ==
    LET buf == Read(f, offset, DefaultPageHeaderSize)
        U(lo, hi) == BigEndianUnsigned(Slice(f, buf, lo, hi))
        PageType == U(0, 1)
        extBuf == Read(f, offset + buf.got, InteriorPageHeaderOffset)
        h == [PageType |-> PageType, FirstFreeBlock |-> U(1, 3),
              CellCount |-> U(3, 5), CellContent |-> U(5, 7),
              FragmentedFreeBytes |-> U(7, 8), RightMostPointer |-> 0]
    IN IF buf.err THEN [err |-> TRUE, h |-> NoPageHeader, pos |-> offset]
       ELSE IF PageType # InteriorTableType
       THEN [err |-> FALSE, h |-> h, pos |-> offset + buf.got]
       ELSE IF extBuf.err THEN [err |-> TRUE, h |-> NoPageHeader, pos |-> offset + buf.got]
       ELSE [err |-> FALSE,
             h |-> [h EXCEPT !.RightMostPointer =
                       BigEndianUnsigned(Slice(f, extBuf, 0, InteriorPageHeaderOffset))],
             pos |-> offset + buf.got + extBuf.got]

NoPage == [Offset |-> -1]
PageLoad(err, panic, p, headerAt, kind, cellReads) ==
    [err |-> err, panic |-> panic, p |-> p, headerAt |-> headerAt,
     kind |-> kind, cellReads |-> cellReads]

RECURSIVE CellsLoop(_, _, _, _, _)
\* The loop of newPage over the cell pointer array, from its i-th turn on.
CellsLoop(f, p, cellPtrBuf, i, cellReads) ==
    IF i >= p.Header.CellCount
    THEN PageLoad("none", FALSE, p, p.Offset, p.Header.PageType, cellReads)
    ELSE IF i * 2 + 2 > cellPtrBuf.len
    THEN PageLoad("none", TRUE, NoPage, p.Offset, p.Header.PageType, cellReads)
    ELSE LET cellPtr == BigEndianUnsigned(Slice(f, cellPtrBuf, i * 2, i * 2 + 2))
             r == newCell(f, p, cellPtr)
             reads == IF r.err = "offset0" THEN cellReads
                      ELSE Append(cellReads, [ptr |-> cellPtr,
                                              at |-> CellFileOffset(p, cellPtr),
                                              len |-> p.PageSize])
         IN IF r.panic
            THEN PageLoad("none", TRUE, NoPage, p.Offset, p.Header.PageType, reads)
            ELSE IF r.err # "none"
            THEN PageLoad(r.err, FALSE, NoPage, p.Offset, p.Header.PageType, reads)
            ELSE CellsLoop(f, [p EXCEPT !.Cells = Append(@, r.c)], cellPtrBuf,
                           i + 1, reads)

\* newPage on the bytes of f: the page whose header is at `offset`.
newPageBytes(f, root, pageSize, offset) ==
    LET hd == newPageHeader(f, offset)
        p == [Offset |-> offset, IsRoot |-> root, PageSize |-> pageSize,
              Header |-> hd.h, Cells |-> <<>>]
        cellPtrBuf == Read(f, hd.pos, (hd.h.CellCount * 2) % 65536)
    IN IF hd.err THEN PageLoad("EOF", FALSE, NoPage, offset, -1, <<>>)
       ELSE IF cellPtrBuf.err
       THEN PageLoad("EOF", FALSE, NoPage, offset, hd.h.PageType, <<>>)
       ELSE CellsLoop(f, p, cellPtrBuf, 0, <<>>)

\* pageNumberToOffset.
pageNumberToOffset(pageSize, pageNumber) == pageSize * (pageNumber - 1)

\* newDatabaseFile: the header and the root page of the file.
newDatabaseFile(f) ==
    LET header == newDatabaseHeader(f)
        rootPage == newPageBytes(f, TRUE, header.h.PageSize, DatabaseHeaderSize)
    IN IF header.err # "none"
       THEN [err |-> header.err, Header |-> NoHeader, RootPage |-> NoPage,
             load |-> PageLoad("none", FALSE, NoPage, -1, -1, <<>>)]
       ELSE IF rootPage.panic \/ rootPage.err # "none"
       THEN [err |-> IF rootPage.panic THEN "panic" ELSE rootPage.err,
             Header |-> NoHeader, RootPage |-> NoPage, load |-> rootPage]
       ELSE [err |-> "none", Header |-> header.h, RootPage |-> rootPage.p,
             load |-> rootPage]

\* databaseFile.newPageFromNumber on the bytes of f.
newPageFromNumberBytes(d, f, pageNumber) ==
    newPageBytes(f, FALSE, d.Header.PageSize,
                 pageNumberToOffset(d.Header.PageSize, pageNumber))

(***************************************************************************)
(* Files handed to the page loader: three pages laid out as the format     *)
(* lays them (page n at RealPageSize * (n - 1), page 1 with its header     *)
(* at 100, an interior header of 12 bytes, cell pointers relative to the   *)
(* start of the page), with the page-size field 512 or 1 (for 65536).      *)
(***************************************************************************)
PageKinds == {InteriorIndexType, InteriorTableType, LeafIndexType, LeafTableType}

RealPageSize(field) == IF field = 1 THEN 65536 ELSE field

\* The two bytes of a 16-bit number.
U16(n) == <<n \div 256, n % 256>>

\* The bytes of the j-th cell of a page of the given kind.
CellImage(kind, j) ==
    CASE kind = InteriorTableType -> <<0, 0, 0, 3, j>>
      [] kind = LeafIndexType -> <<3, 2, 1, 40 + j>>
      [] kind = InteriorIndexType -> <<0, 0, 0, 3, 3, 2, 1, 40 + j>>
      [] OTHER -> <<3, j, 2, 1, 40 + j>>

\* Where the j-th cell of a page lies, relative to the start of the page.
CellPlace(j) == 400 + 20 * (j - 1)

RECURSIVE CellImages(_, _, _)
CellImages(base, kind, count) ==
    IF count = 0 THEN <<>>
    ELSE Place(base + CellPlace(count), CellImage(kind, count))
         @@ CellImages(base, kind, count - 1)

RECURSIVE PointerArray(_, _, _)
PointerArray(count, zeroFirst, j) ==
    IF j > count THEN <<>>
    ELSE U16(IF j = 1 /\ zeroFirst THEN 0 ELSE CellPlace(j))
         \o PointerArray(count, zeroFirst, j + 1)

\* The bytes of one page: its header at base + hdrOff, the pointer array
\* after it, the cells at their places.
PageImage(base, hdrOff, kind, count, zeroFirst) ==
    Place(base + hdrOff,
          <<kind, 0, 0>> \o U16(count) \o U16(CellPlace(1)) \o <<0>>
          \o (IF kind \in {InteriorIndexType, InteriorTableType}
              THEN <<0, 0, 0, 3>> ELSE <<>>)
          \o PointerArray(count, zeroFirst, 1))
    @@ CellImages(base, kind, count)

LoadFile(field, rootCount, kind, count, zeroFirst) ==
    LET size == RealPageSize(field)
    IN MakeFile(3 * size,
          HeaderBytes(DatabaseHeaderString, U16(field), 1, 64, 32, 32,
                      <<0, 0, 0, 4>>, <<0, 0, 0, 1>>)
          @@ PageImage(0, DatabaseHeaderSize, LeafTableType, rootCount, FALSE)
          @@ PageImage(size, 0, kind, count, zeroFirst)
          @@ PageImage(2 * size, 0, LeafTableType, 1, FALSE))

LoadInit ==
    /\ SelectIdle
    /\ \E field \in {512, 1}, rootCount \in {0, 1}, kind \in PageKinds \cup {0, 7},
          count \in 0..MaxCells, zeroFirst \in BOOLEAN, n \in {1, 2, 3, 101} :
          /\ zeroFirst => count > 0
          /\ call = [op |-> "load", n |-> n,
                     f |-> LoadFile(field, rootCount, kind, count, zeroFirst)]
    /\ ret = NoCall

\* newDatabaseFile on the file.
OpenFile ==
    /\ call.op = "load" /\ ret = NoCall
    /\ ret' = [stage |-> "open", d |-> newDatabaseFile(call.f),
               page |-> PageLoad("none", FALSE, NoPage, -1, -1, <<>>)]
    /\ UNCHANGED <<call, svars>>

\* d.newPageFromNumber(n) on the open file.
LoadPage ==
    /\ call.op = "load" /\ ret # NoCall
    /\ ret.stage = "open" /\ ret.d.err = "none"
    /\ ret' = [ret EXCEPT !.stage = "loaded",
                          !.page = newPageFromNumberBytes(ret.d, call.f, call.n)]
    /\ UNCHANGED <<call, svars>>

LoadNext == OpenFile \/ LoadPage

LoadSpec == LoadInit /\ [][LoadNext]_vars

Loaded == call.op = "load" /\ ret # NoCall /\ ret.stage = "loaded"

\* The page-size field of the header of the open file.
PageSizeField == ret.d.Header.PageSize

(***************************************************************************)
(* C12: when the page-size field of the header is 1 the engine uses a      *)
(* page size of 65536: page n is read at 65536 * (n - 1) and the buffers   *)
(* of its cells are 65536 bytes long.                                      *)
(***************************************************************************)
C12_PageSizeOneIs65536 ==
    (Loaded /\ PageSizeField = 1) =>
        /\ ret.page.headerAt = 65536 * (call.n - 1)
        /\ \A j \in 1..Len(ret.page.cellReads) : ret.page.cellReads[j].len = 65536

(***************************************************************************)
(* C14: loading a page whose kind byte is not one of 2, 5, 10, 13 fails,   *)
(* whatever its cell count, 0 included.                                    *)
(***************************************************************************)
C14_InvalidPageKindFails ==
    (Loaded /\ ret.page.kind # -1 /\ ret.page.kind \notin PageKinds) =>
        ret.page.err # "none"

(***************************************************************************)
(* C19: for every page number n >= 1 handed to the page loader the page    *)
(* header is read at file offset 100 when n = 1 and at page_size * (n - 1) *)
(* otherwise.                                                              *)
(***************************************************************************)
C19_PageOneHeaderAt100 ==
    Loaded =>
        ret.page.headerAt = IF call.n = 1 THEN DatabaseHeaderSize
                            ELSE PageSizeField * (call.n - 1)

(***************************************************************************)
(* C20: a cell is decoded at the file offset its 16-bit cell pointer       *)
(* names when it is a cell of page 1, and at the cell pointer plus the     *)
(* file offset of the page when it is a cell of any other page.            *)
(***************************************************************************)
C20_CellOffsets ==
    (call.op = "load" /\ ret # NoCall) =>
        /\ \A j \in 1..Len(ret.d.load.cellReads) :
              ret.d.load.cellReads[j].at = ret.d.load.cellReads[j].ptr
        /\ \A j \in 1..Len(ret.page.cellReads) :
              ret.page.cellReads[j].at =
                 ret.page.cellReads[j].ptr
                 + (IF call.n = 1 THEN 0 ELSE ret.page.headerAt)

\* Page 2 of a 512-byte-page file was loaded with its leaf cells decoded.
LoadSanity ==
    (/\ Loaded /\ PageSizeField = 512 /\ call.n = 2 /\ ret.page.kind = LeafTableType
     /\ ret.page.err = "none" /\ ~ret.page.panic) =>
        \A j \in 1..Len(ret.page.p.Cells) :
           /\ ret.page.p.Cells[j].RowID = j
           /\ ret.page.p.Cells[j].Data = <<40 + j>>
           /\ ret.page.p.Cells[j].Header = <<[Type |-> 1, Size |-> 1]>>

(***************************************************************************)
(* Schema walk: the table list and the lookup of a table's schema row.     *)
(***************************************************************************)

TableTypeBytes == <<116, 97, 98, 108, 101>>
IndexTypeBytes == <<105, 110, 100, 101, 120>>

\* CleanKeyRegexp: a double quote or a square bracket.
CleanKeyRegexp == {34, 91, 93}

\* cleanKeyString: strip what CleanKeyRegexp matches, then lower-case.
cleanKeyString(key) == ToLower(SelectSeq(key, LAMBDA b : b \notin CleanKeyRegexp))

CellType(c) ==
    IF Len(c.Data) <= 0 THEN "unknown"
    ELSE IF Len(c.Header) < 1 \/ c.Header[1].Type # SerialText THEN "unknown"
    ELSE LET d == SubSeq(c.Data, 1, c.Header[1].Size)
         IN IF d = TableTypeBytes THEN "table"
            ELSE IF d = IndexTypeBytes THEN "index"
            ELSE "unknown"

\* TableName: the third field of the row, cleaned; an error for a cell that
\* is neither a table row nor an index row.
TableName(c) ==
    IF CellType(c) = "unknown" THEN [err |-> TRUE, name |-> <<>>]
    ELSE LET offset == HeaderOffsetFromN(c, 2)
         IN [err |-> FALSE,
             name |-> cleanKeyString(
                          SubSeq(c.Data, offset + 1, offset + c.Header[3].Size))]

\* TablesNames: the names of the cells of one page, in cell order.
RECURSIVE TablesNames(_, _)
TablesNames(p, i) ==
    IF i > Len(p.Cells) THEN <<>>
    ELSE LET r == TableName(p.Cells[i])
         IN (IF r.err THEN <<>> ELSE <<r.name>>) \o TablesNames(p, i + 1)

\* CellFromTableName: the first cell of the page whose name is t.
RECURSIVE CellFromTableName(_, _, _)
CellFromTableName(p, t, i) ==
    IF i > Len(p.Cells) THEN [err |-> TRUE, cell |-> 0]
    ELSE LET r == TableName(p.Cells[i])
         IN IF r.err \/ r.name # t THEN CellFromTableName(p, t, i + 1)
            ELSE [err |-> FALSE, cell |-> p.Cells[i]]

\* newPageFromNumber over a schema file sf (page number -> page): an error
\* for a page outside the file, page 0 included, and for a page one of
\* whose cells newCell fails to decode (such a cell is NoCell in sf).
newPageOf(sf, pageNumber) ==
    IF pageNumber \notin DOMAIN sf THEN [err |-> TRUE, page |-> 0]
    ELSE IF \E i \in 1..Len(sf[pageNumber].Cells) : sf[pageNumber].Cells[i] = NoCell
    THEN [err |-> TRUE, page |-> 0]
    ELSE [err |-> FALSE, page |-> pageNumber]

\* addTableLeaves: db.Pages after the call, and the error returned.  The
\* loop runs over the cells of an interior table page only.
RECURSIVE addTableLeavesLoop(_, _, _, _)
addTableLeavesLoop(sf, pn, i, pages) ==
    IF sf[pn].PageType # InteriorTableType \/ i > Len(sf[pn].Cells)
    THEN [err |-> FALSE, Pages |-> pages]
    ELSE LET pp == newPageOf(sf, sf[pn].Cells[i].LeftPageNumber)
         IN IF pp.err THEN [err |-> TRUE, Pages |-> pages]
            ELSE IF sf[pp.page].PageType = LeafTableType
            THEN addTableLeavesLoop(sf, pn, i + 1, Append(pages, pp.page))
            ELSE addTableLeavesLoop(sf, pn, i + 1,
                     addTableLeavesLoop(sf, pp.page, 1, pages).Pages)

addTableLeaves(sf, pn, pages) == addTableLeavesLoop(sf, pn, 1, pages)

\* TableNames: from d.Pages when the root page is interior, else from the
\* root page itself.
RECURSIVE PagesNames(_, _, _)
PagesNames(sf, pages, i) ==
    IF i > Len(pages) THEN <<>>
    ELSE TablesNames(sf[pages[i]], 1) \o PagesNames(sf, pages, i + 1)

dbTableNames(sf, pages) ==
    IF sf[1].PageType = InteriorTableType THEN PagesNames(sf, pages, 1)
    ELSE TablesNames(sf[1], 1)

NoRootCell == [panic |-> FALSE, err |-> TRUE, cell |-> 0]

\* FindTableRootCell: the loop over p.Cells returns in its first iteration;
\* a child that fails to load is a nil page, dereferenced by the call on it.
RECURSIVE FindTableRootCell(_, _, _)
FindTableRootCell(sf, t, pn) ==
    LET p == sf[pn]
        c == CellFromTableName(p, t, 1)
    IN IF p.PageType = LeafTableType /\ ~c.err
       THEN [panic |-> FALSE, err |-> FALSE, cell |-> c.cell]
       ELSE IF Len(p.Cells) = 0 THEN NoRootCell
       ELSE LET pp == newPageOf(sf, p.Cells[1].LeftPageNumber)
            IN IF pp.err THEN [NoRootCell EXCEPT !.panic = TRUE, !.err = FALSE]
               ELSE FindTableRootCell(sf, t, pp.page)

\* Schema files.  Three tables a, b, c; each shape has its leaves, and a
\* placement puts the schema row of each table on one of them.
\*   leaf: page 1 is the only leaf.
\*   flat: page 1 is interior over leaves 2, 3 and the right-most leaf 4.
\*   deep: page 1 is interior over interior 2 (leaves 5, 6, right-most 7),
\*         leaf 3, and the right-most leaf 4.
SchemaTableBytes == ("a" :> <<97>>) @@ ("b" :> <<98>>) @@ ("c" :> <<99>>)
SchemaTables == DOMAIN SchemaTableBytes
SchemaRowID == ("a" :> 1) @@ ("b" :> 2) @@ ("c" :> 3)
SchemaShapes == {"leaf", "flat", "deep"}
ShapeLeaves(shape) ==
    CASE shape = "leaf" -> {1}
      [] shape = "flat" -> {2, 3, 4}
      [] shape = "deep" -> {3, 4, 5, 6, 7}

SchemaRow(t) == SchemaCell(SchemaRowID[t], SchemaTableBytes[t], 1, <<2>>, ColumnsD)

SchemaLeaf(place, pn) ==
    LET row(t) == IF place[t] = pn THEN <<SchemaRow(t)>> ELSE <<>>
    IN Page(LeafTableType, row("a") \o row("b") \o row("c"), 0)

SchemaFile(shape, place) ==
    LET leaves == [pn \in ShapeLeaves(shape) |-> SchemaLeaf(place, pn)]
    IN CASE shape = "leaf" -> leaves
         [] shape = "flat" ->
              leaves @@ (1 :> Page(InteriorTableType,
                                   <<InteriorTableCell(2, 1),
                                     InteriorTableCell(3, 2)>>, 4))
         [] shape = "deep" ->
              leaves @@ (1 :> Page(InteriorTableType,
                                   <<InteriorTableCell(2, 1),
                                     InteriorTableCell(3, 2)>>, 4))
                     @@ (2 :> Page(InteriorTableType,
                                   <<InteriorTableCell(5, 1),
                                     InteriorTableCell(6, 1)>>, 7))

SchemaInit ==
    /\ SelectIdle
    /\ \E shape \in SchemaShapes :
       \E place \in [SchemaTables -> ShapeLeaves(shape)] :
       \E t \in SchemaTables \cup {"zz"} :
          call = [op |-> "schema", shape |-> shape, place |-> place,
                  sf |-> SchemaFile(shape, place), t |-> t]
    /\ ret = NoCall

\* The .tables command: addTableLeaves(db, db.RootPage), then TableNames.
ListTables ==
    /\ call.op = "schema"
    /\ LET r == addTableLeaves(call.sf, 1, <<>>)
       IN ret' = [op |-> "tables", err |-> r.err, Pages |-> r.Pages,
                  names |-> dbTableNames(call.sf, r.Pages)]
    /\ UNCHANGED <<svars, call>>

\* FindTableCtx up to the schema row: FindTableRootCell(t, db.RootPage).
FindTable ==
    /\ call.op = "schema"
    /\ call.t \in SchemaTables
    /\ ret' = [op |-> "find", t |-> call.t,
               r |-> FindTableRootCell(call.sf, SchemaTableBytes[call.t], 1)]
    /\ UNCHANGED <<svars, call>>

FindMissingTable ==
    /\ call.op = "schema"
    /\ call.t \notin SchemaTables
    /\ ret' = [op |-> "find", t |-> call.t,
               r |-> FindTableRootCell(call.sf, <<122, 122>>, 1)]
    /\ UNCHANGED <<svars, call>>

SchemaNext == ListTables \/ FindTable \/ FindMissingTable

SchemaSpec == SchemaInit /\ [][SchemaNext]_vars

\* The leaves reachable from page pn through the left child of every
\* interior cell and through the right-most pointer, in key order.
RECURSIVE ReachableLeaves(_, _)
RECURSIVE ReachableFromCells(_, _, _)
ReachableLeaves(sf, pn) ==
    IF pn \notin DOMAIN sf THEN {}
    ELSE IF sf[pn].PageType = LeafTableType THEN {pn}
    ELSE IF sf[pn].PageType = InteriorTableType
    THEN ReachableFromCells(sf, pn, 1) \cup ReachableLeaves(sf, sf[pn].RightMostPointer)
    ELSE {}
ReachableFromCells(sf, pn, i) ==
    IF i > Len(sf[pn].Cells) THEN {}
    ELSE ReachableLeaves(sf, sf[pn].Cells[i].LeftPageNumber)
            \cup ReachableFromCells(sf, pn, i + 1)

\* The table rows stored on the reachable leaves of the schema file.
StoredTableRows(sf) ==
    {c \in UNION {{sf[pn].Cells[i] : i \in 1..Len(sf[pn].Cells)} :
                     pn \in ReachableLeaves(sf, 1)} :
        CellType(c) = "table"}

InSeq(s, x) == \E i \in 1..Len(s) : s[i] = x

\* C17: every table row stored on a leaf reachable from page 1 through
\* left-child pointers and the right-most pointer is named in the table
\* list, and looking its table up by name returns that row.
C17_SchemaWalkFindsEveryTable ==
    /\ ret.op = "tables" =>
          \A c \in StoredTableRows(call.sf) : InSeq(ret.names, TableName(c).name)
    /\ ret.op = "find" /\ ret.t \in SchemaTables =>
          /\ ~ret.r.panic /\ ~ret.r.err
          /\ ret.r.cell = SchemaRow(ret.t)

\* Rows on the leaves under left children of page 1 are listed.
SchemaSanity ==
    ret.op = "tables" /\ call.shape = "flat" =>
        \A t \in SchemaTables :
            call.place[t] \in {2, 3} => InSeq(ret.names, SchemaTableBytes[t])

(***************************************************************************)
(* Termination of the scan.                                                *)
(***************************************************************************)

\* The pages a page points to: the left child of every cell and the
\* right-most pointer, as far as they lie in the file.
ChildrenOf(pn) ==
    IF File[pn].PageType # InteriorTableType THEN {}
    ELSE ({File[pn].Cells[i].LeftPageNumber : i \in 1..Len(File[pn].Cells)}
             \cup {File[pn].RightMostPointer}) \cap DOMAIN File

RECURSIVE Below(_, _)
Below(pages, k) ==
    IF k = 0 THEN pages
    ELSE Below(pages \cup UNION {ChildrenOf(pn) : pn \in pages}, k - 1)

\* No page of the file lies below itself, and no page has two parents.
FileIsForest ==
    /\ \A pn \in DOMAIN File :
          pn \notin Below(ChildrenOf(pn), Cardinality(DOMAIN File))
    /\ \A pn, pm \in DOMAIN File :
          pn # pm => ChildrenOf(pn) \cap ChildrenOf(pm) = {}

\* The states in which LeafCell can step; every such step extends visited.
LeafCellEnabled ==
    /\ pc = "scan" /\ stack # <<>>
    /\ TopPage.PageType = LeafTableType
    /\ Top.i <= Len(TopPage.Cells)
    /\ ~LimitReached(q, query)

\* The program is one thread: a call of queryTable or handleQueryLeaf that
\* can take its next step takes it.  The last conjunct is weak fairness
\* of LeafCell, with its enabling condition written out.
ScanFairness ==
    /\ WF_vars(LeafReturn)
    /\ WF_vars(InteriorChild)
    /\ WF_vars(InteriorRightMost)
    /\ WF_vars(InteriorReturn)
    /\ WF_vars(OtherPage)
    /\ ([]<>(~LeafCellEnabled) \/ []<><<LeafCell>>_vars)

FairSpec == Init /\ [][Next]_vars /\ ScanFairness

Scanning == pc = "scan" /\ stack # <<>>

\* queryTable on the root page has returned, with nil or with an error.
QueryTableReturned == stack = <<>> /\ pc \in {"scan", "done"}

\* C18: when the pages below a table's root form a finite tree, a scan
\* that has started ends with the return of queryTable on the root page,
\* whether the query has a limit or not.
C18_ScanTerminates == (Scanning /\ FileIsForest) ~> QueryTableReturned

\* The scan of table a (three levels, five rows) has returned, no limit.
C18_Witness ==
    /\ FileIsForest
    /\ ScanReturned
    /\ q.tableName = "a"
    /\ query.Limit = 0
    /\ Len(visited) = 5
    /\ Len(loads) = 6

(***************************************************************************)
(* C21: the header of an interior page of either kind (2, 5) is 12 bytes   *)
(* long, its right-most pointer is read from bytes 8..11 and the cell      *)
(* pointer array starts at byte 12; the header of a leaf page (10, 13) is  *)
(* 8 bytes long and the array starts at byte 8.                            *)
(***************************************************************************)
LoadedHeader == newPageHeader(call.f, ret.page.headerAt)

C21_InteriorHeaderIs12 ==
    (Loaded /\ ret.page.kind \in PageKinds /\ ~LoadedHeader.err) =>
        IF ret.page.kind \in {InteriorIndexType, InteriorTableType}
        THEN /\ LoadedHeader.pos = ret.page.headerAt + 12
             /\ LoadedHeader.h.RightMostPointer =
                   BigEndianUnsigned(
                      [i \in 1..4 |-> FileByte(call.f, ret.page.headerAt + 7 + i)])
        ELSE LoadedHeader.pos = ret.page.headerAt + 8

\* The same for table pages alone, where it holds.
LoadHeaderSanity ==
    (Loaded /\ ret.page.kind \in PageKinds \ {InteriorIndexType}
        /\ ~LoadedHeader.err) =>
        LoadedHeader.pos = ret.page.headerAt
            + (IF ret.page.kind = InteriorTableType THEN 12 ELSE 8)

(***************************************************************************)
(* Records decoded from the bytes of a leaf table page.  The file holds    *)
(* three pages of 4096 bytes; page 2 is a leaf table page with one cell,    *)
(* laid out as the format lays it: payload length, row id, then the        *)
(* payload (header size, serial types, field bytes) and, for a spilled     *)
(* row, the inline part of the payload and the first overflow page.        *)
(***************************************************************************)
MaxFields == 2          \* fields of the short records
MaxSerialCode == 17     \* largest serial-type code of the short records

RecordPageSize == 4096
RecordCellAt == 16      \* the cell pointer of the one cell of page 2

\* The size of a field by the serial-type table of the file format.
SerialTypeSize(N) ==
    CASE N \in 0..4 -> N
      [] N = 5 -> 6
      [] N \in {6, 7} -> 8
      [] N \in 8..11 -> 0
      [] N >= 12 /\ N % 2 = 0 -> (N - 12) \div 2
      [] OTHER -> (N - 13) \div 2

\* The varint of a number below 2^14.
SmallVarint(n) == IF n < 128 THEN <<n>> ELSE <<128 + (n \div 128), n % 128>>

RECURSIVE TypeBytes(_)
TypeBytes(types) ==
    IF \A i \in 1..Len(types) : types[i] < 128 THEN types
    ELSE SmallVarint(Head(types)) \o TypeBytes(Tail(types))

RECURSIVE FieldImages(_, _)
FieldImages(types, i) ==
    IF \A j \in i..Len(types) : SerialTypeSize(types[j]) = 0 THEN <<>>
    ELSE [k \in 1..SerialTypeSize(types[i]) |-> 64 + (i % 64)]
         \o FieldImages(types, i + 1)

\* header_size counts its own varint.
RecordHeaderSize(types) ==
    IF Len(TypeBytes(types)) + 1 < 128 THEN Len(TypeBytes(types)) + 1
    ELSE Len(TypeBytes(types)) + 2

RecordImage(types) ==
    SmallVarint(RecordHeaderSize(types)) \o TypeBytes(types) \o FieldImages(types, 1)

\* A leaf table cell: the declared payload length, the row id, the bytes
\* stored inline and, when the row is spilled, the first overflow page.
RecordCell(payloadLength, rowID, inline, overflow) ==
    SmallVarint(payloadLength) \o SmallVarint(rowID) \o inline
    \o (IF overflow = 0 THEN <<>> ELSE <<0, 0, 0, overflow>>)

RecordFile(cellBytes) ==
    MakeFile(3 * RecordPageSize,
        Place(RecordPageSize,
              <<LeafTableType, 0, 0>> \o U16(1) \o U16(RecordCellAt) \o <<0>>
              \o U16(RecordCellAt))
        @@ Place(RecordPageSize + RecordCellAt, cellBytes))

SerialCodes == (0..MaxSerialCode) \ {10, 11}

Repeat(x, n) == [i \in 1..n |-> x]

\* Rows of many columns: k text fields of 58 bytes (serial type 129, a
\* varint of two bytes), or n fields of serial type 8 (no bytes).
LongTextCounts == {62, 63, 64}
LongZeroCounts == {50, 254, 300}

\* The usable size of a page without reserved space, and the payload a
\* leaf table cell keeps inline when the row is spilled.
UsablePayload == RecordPageSize
MaxLocal == UsablePayload - 35
MinLocal == ((UsablePayload - 12) * 32) \div 255 - 23
InlineLength(payloadLength) ==
    LET k == MinLocal + ((payloadLength - MinLocal) % (UsablePayload - 4))
    IN IF payloadLength <= MaxLocal THEN payloadLength
       ELSE IF k <= MaxLocal THEN k ELSE MinLocal

\* A row with one text field of `size` bytes.
TextCode(size) == 2 * size + 13
SpilledSizes == {4040, 4058, 4059, 5000, 8000}

ValidRecords ==
    {[kind |-> "valid", types |-> t, payloadLength |-> Len(RecordImage(t)),
      inline |-> RecordImage(t), overflow |-> 0] :
        t \in UNION {[1..n -> SerialCodes] : n \in 1..MaxFields}}

LongRecords ==
    {[kind |-> "long", types |-> t, payloadLength |-> Len(RecordImage(t)),
      inline |-> RecordImage(t), overflow |-> 0] :
        t \in {Repeat(129, k) : k \in LongTextCounts}
                 \cup {Repeat(8, n) : n \in LongZeroCounts}}

\* Cells whose declared payload length is smaller than the header size.
ShortRecords ==
    {[kind |-> "short", types |-> <<1, 1>>, payloadLength |-> l,
      inline |-> RecordImage(<<1, 1>>), overflow |-> 0] : l \in 0..2}

SpilledRecords ==
    {LET t == <<TextCode(size)>>
         l == Len(RecordImage(t))
     IN [kind |-> "spilled", types |-> t, payloadLength |-> l,
         inline |-> SubSeq(RecordImage(t), 1, InlineLength(l)),
         overflow |-> IF InlineLength(l) < l THEN 3 ELSE 0] :
        size \in SpilledSizes}

RecordInit ==
    /\ SelectIdle
    /\ \E r \in ValidRecords \cup LongRecords \cup ShortRecords \cup SpilledRecords,
          rowID \in {1, 200} :
          call = [op |-> "record", rec |-> r, rowID |-> rowID,
                  f |-> RecordFile(RecordCell(r.payloadLength, rowID,
                                              r.inline, r.overflow))]
    /\ ret = NoCall

\* newPageFromNumber(2) on the file: the page and its one cell.
LoadRecordPage ==
    /\ call.op = "record" /\ ret = NoCall
    /\ ret' = [op |-> "record",
               load |-> newPageBytes(call.f, FALSE, RecordPageSize,
                            pageNumberToOffset(RecordPageSize, 2))]
    /\ UNCHANGED <<call, svars>>

RecordNext == LoadRecordPage

RecordSpec == RecordInit /\ [][RecordNext]_vars

RecordLoaded == call.op = "record" /\ ret # NoCall
RecordDecoded ==
    RecordLoaded /\ ~ret.load.panic /\ ret.load.err = "none"
TheCell == ret.load.p.Cells[1]

(***************************************************************************)
(* C22: the size newCellHeader records for a serial type is the size of    *)
(* the serial-type table, the codes 12 and 13 (size 0) included, so that   *)
(* the field sizes of a valid record sum to payload_length - header_size.  *)
(***************************************************************************)
C22_SerialTypeSizes ==
    (RecordLoaded /\ call.rec.kind = "valid") =>
        /\ RecordDecoded
        /\ Len(TheCell.Header) = Len(call.rec.types)
        /\ \A i \in 1..Len(call.rec.types) :
              TheCell.Header[i].Size = SerialTypeSize(call.rec.types[i])
        /\ SumSizes(TheCell.Header, Len(TheCell.Header))
              = call.rec.payloadLength - RecordHeaderSize(call.rec.types)

\* The same without the codes 12 and 13, where it holds.
RecordSizeSanity ==
    (/\ RecordLoaded /\ call.rec.kind = "valid"
     /\ \A i \in 1..Len(call.rec.types) : call.rec.types[i] \notin {12, 13}) =>
        /\ RecordDecoded
        /\ \A i \in 1..Len(call.rec.types) :
              TheCell.Header[i].Size = SerialTypeSize(call.rec.types[i])
        /\ SumSizes(TheCell.Header, Len(TheCell.Header))
              = call.rec.payloadLength - RecordHeaderSize(call.rec.types)
        /\ TheCell.Data = FieldImages(call.rec.types, 1)
        /\ TheCell.RowID = call.rowID

(***************************************************************************)
(* C23: for every record, those with a header_size of 128 or more or of    *)
(* more than 255 included, the decoded field list is the list of the       *)
(* serial types that follow the header_size varint in the header, and the  *)
(* body is payload_length - header_size bytes long.                        *)
(***************************************************************************)
C23_HeaderSelfSize ==
    (RecordLoaded /\ call.rec.kind \in {"valid", "long"}) =>
        /\ RecordDecoded
        /\ TheCell.Header =
              [i \in 1..Len(call.rec.types) |-> newCellHeader(call.rec.types[i])]
        /\ Len(TheCell.Data)
              = call.rec.payloadLength - RecordHeaderSize(call.rec.types)

\* The same for the records whose header_size is below 128, where it holds.
RecordHeaderSanity ==
    (/\ RecordLoaded /\ call.rec.kind \in {"valid", "long"}
     /\ RecordHeaderSize(call.rec.types) < 128) =>
        /\ RecordDecoded
        /\ TheCell.Header =
              [i \in 1..Len(call.rec.types) |-> newCellHeader(call.rec.types[i])]
        /\ Len(TheCell.Data)
              = call.rec.payloadLength - RecordHeaderSize(call.rec.types)
        /\ TheCell.HeaderSize = RecordHeaderSize(call.rec.types)

(***************************************************************************)
(* Fields of every serial type read by ReadDataFromHeaderIndex.            *)
(***************************************************************************)
\* Field bytes of length n: one byte b among bytes c.
FieldPatterns(n) ==
    IF n = 0 THEN {<<>>}
    ELSE {[k \in 1..n |-> IF k = j THEN b ELSE c] :
             b \in SerialBytes, c \in {0, 255}, j \in 1..n}

\* A text field of 13 bytes (serial type 39) that may follow the field read.
NextFieldCode == 39
NextFieldBytes == [k \in 1..13 |-> 96 + k]

\* A cell whose record holds a one-byte integer, one field of serial type N
\* with the bytes the format gives it and, unless the field is the last,
\* a text field; the field of type N is read.
FieldInit ==
    /\ SelectIdle
    /\ \E N \in 0..MaxSerialCode, last \in BOOLEAN :
          \E data \in FieldPatterns(SerialTypeSize(N)) :
             call = [op |-> "ReadDataFromHeaderIndex",
                     c |-> IF last
                           THEN LeafTableCell(1, <<1, N>>, <<7>> \o data)
                           ELSE LeafTableCell(1, <<1, N, NextFieldCode>>,
                                              <<7>> \o data \o NextFieldBytes),
                     headerIdx |-> 1, N |-> N, data |-> data, last |-> last]
    /\ ret = NoCall

FieldSpec == FieldInit /\ [][SerialNext]_vars

FieldRead == call.op = "ReadDataFromHeaderIndex" /\ ret # NoCall

(***************************************************************************)
(* C24: reading a field fails exactly for the serial types 10 and 11; for  *)
(* every other type a value is returned without error: the integer for     *)
(* 1..6, the double for 7, 0 for 8, 1 for 9, the bytes for blobs (even     *)
(* N >= 12) and texts (odd N >= 13), and Null for 0.                       *)
(***************************************************************************)
C24_UnsupportedSerialTypes ==
    FieldRead =>
        /\ ~ret.panic
        /\ ret.err <=> call.N \in {10, 11}
        /\ call.N \in {1, 2, 3, 4} =>
              ret.val.kind = "int" /\ ret.val.n = BigEndianSigned(call.data)
        /\ call.N \in {5, 6} =>
              /\ ret.val.kind = "int64"
              /\ SubSeq(ret.val.s, Int64Bits - 8 * Len(call.data) + 1, Int64Bits)
                    = BytesBits(call.data)
        /\ call.N = 7 => ret.val.kind = "float" /\ ret.val.s = call.data
        /\ call.N = 8 => ret.val = IntVal(0)
        /\ call.N = 9 => ret.val = IntVal(1)
        /\ call.N >= 12 => ret.val.s = call.data

\* The same for the types 1..9, the types 10 and 11 when a field follows,
\* and the texts of one byte or more, where it holds.
FieldSanity ==
    (FieldRead /\ (\/ call.N \in 1..9
                   \/ call.N \in {10, 11} /\ ~call.last
                   \/ call.N > 13 /\ call.N % 2 = 1)) =>
        /\ ~ret.panic
        /\ ret.err <=> call.N \in {10, 11}
        /\ call.N \in {1, 2, 3, 4} =>
              ret.val.kind = "int" /\ ret.val.n = BigEndianSigned(call.data)
        /\ call.N \in {8, 9} => ret.val = IntVal(call.N - 8)
        /\ call.N > 13 => ret.val = StrVal(call.data)

(***************************************************************************)
(* C25: decoding a cell whose header_size is greater than its              *)
(* payload_length returns an error; the difference is not computed by      *)
(* unsigned wrap-around and no buffer of the wrapped size is allocated.    *)
(***************************************************************************)
C25_MalformedRecord ==
    (RecordLoaded /\ call.rec.kind = "short") =>
        ~ret.load.panic /\ ret.load.err # "none"

(***************************************************************************)
(* C26: a leaf table cell whose payload is longer than what is stored      *)
(* inline is decoded without error, and so is its page: the cell keeps     *)
(* the inline part of the payload and the first overflow page number.      *)
(***************************************************************************)
C26_SpilledRowDecoded ==
    (RecordLoaded /\ call.rec.kind = "spilled" /\ call.rec.overflow # 0) =>
        /\ RecordDecoded
        /\ TheCell.HeaderSize + Len(TheCell.Data) = Len(call.rec.inline)
        /\ TheCell.FirstOverflow = call.rec.overflow

\* A row that fits the page is decoded whole, with no overflow page.
UnspilledSanity ==
    (RecordLoaded /\ call.rec.kind = "spilled" /\ call.rec.overflow = 0) =>
        /\ RecordDecoded
        /\ TheCell.HeaderSize + Len(TheCell.Data) = call.rec.payloadLength
        /\ TheCell.FirstOverflow = 0

(***************************************************************************)
(* Schema files with a malformed cell on one leaf.                         *)
(***************************************************************************)
\* A row that is neither a table row nor an index row: its first field
\* reads "view".
UnknownRow ==
    [SchemaCell(9, <<118>>, 1, <<2>>, ColumnsD)
        EXCEPT !.Header[1] = newCellHeader(21),
               !.Data = <<118, 105, 101, 119, 118, 118, 2, 40>>]

\* The malformed cells: one that newCell cannot decode, one that decodes
\* to a row of unknown type.
MalformedCells == {NoCell, UnknownRow}

\* The schema file sf with cell c put first or last on leaf pn.
WithCell(sf, pn, c, atFront) ==
    [sf EXCEPT ![pn].Cells = IF atFront THEN <<c>> \o @ ELSE Append(@, c)]

MalformedInit ==
    /\ SelectIdle
    /\ \E shape \in SchemaShapes \ {"leaf"} :
       \E place \in [SchemaTables -> ShapeLeaves(shape)] :
       \E pn \in ShapeLeaves(shape), c \in MalformedCells, atFront \in BOOLEAN :
       \E t \in SchemaTables \cup {"zz"} :
          call = [op |-> "schema", shape |-> shape, place |-> place,
                  sf |-> WithCell(SchemaFile(shape, place), pn, c, atFront),
                  t |-> t, bad |-> pn]
    /\ ret = NoCall

MalformedSpec == MalformedInit /\ [][SchemaNext]_vars

\* The table list of the same schema file without the malformed cell.
ListedWithoutMalformed ==
    LET clean == SchemaFile(call.shape, call.place)
    IN dbTableNames(clean, addTableLeaves(clean, 1, <<>>).Pages)

(***************************************************************************)
(* C27: a malformed cell or schema row on a schema page does not stop the  *)
(* schema walk: every well-formed table row that the walk collects from    *)
(* the same file without the malformed cell, on the same page or on a      *)
(* sibling page, is still in the table list.                               *)
(***************************************************************************)
C27_MalformedRowSkipped ==
    (call.op = "schema" /\ ret.op = "tables") =>
        \A i \in 1..Len(ListedWithoutMalformed) :
            InSeq(ret.names, ListedWithoutMalformed[i])

\* A row of unknown type is skipped and costs no other row.
MalformedSanity ==
    (/\ call.op = "schema" /\ ret.op = "tables"
     /\ \A pn \in DOMAIN call.sf :
           \A i \in 1..Len(call.sf[pn].Cells) : call.sf[pn].Cells[i] # NoCell) =>
        ret.names = ListedWithoutMalformed

(***************************************************************************)
(* Schema rows whose fourth field (rootpage) has any serial type.          *)
(***************************************************************************)
\* The w bytes of the number v < 2^31, most significant first.
BigEndianBytes(v, w) ==
    [k \in 1..w |-> IF w - k > 3 THEN 0 ELSE (v \div Pow2(8 * (w - k))) % 256]

\* Root page numbers, for each integer serial type that can hold them.
RootPageNumbers(N) ==
    CASE N = 1 -> {2, 100, 127}
      [] N = 2 -> {2, 128, 255, 256, 300, 32767}
      [] N = 3 -> {255, 32768, 70000}
      [] N = 4 -> {256, 8388608, 16777216}
      [] OTHER -> {2, 256, 300, 70000}

\* The rootpage field: the integer v stored with serial type N in 1..6, or
\* a field of another serial type.
RootFields ==
    UNION {{[N |-> N, v |-> v, bytes |-> BigEndianBytes(v, SerialTypeSize(N))] :
               v \in RootPageNumbers(N)} : N \in 1..6}
    \cup {[N |-> N, v |-> 0, bytes |-> [k \in 1..SerialTypeSize(N) |-> 50]] :
             N \in (0..MaxSerialCode) \ (1..6)}

RootInit ==
    /\ SelectIdle
    /\ \E fld \in RootFields, t \in SchemaTables, rowID \in 1..3 :
          call = [op |-> "RootPage", fld |-> fld,
                  c |-> SchemaCell(rowID, SchemaTableBytes[t], fld.N, fld.bytes,
                                   ColumnsD)]
    /\ ret = NoCall

\* rootCell.RootPage() in HandleSelect.
ResolveRoot ==
    /\ call.op = "RootPage" /\ ret = NoCall
    /\ ret' = [op |-> "RootPage", r |-> RootPage(call.c)]
    /\ UNCHANGED <<call, svars>>

RootNext == ResolveRoot

RootSpec == RootInit /\ [][RootNext]_vars

RootResolved == call.op = "RootPage" /\ ret # NoCall

(***************************************************************************)
(* C28: RootPage returns the root page number stored in the fourth field   *)
(* of a table schema row for every integer serial type (integers of 1, 2,  *)
(* 3, 4, 6 and 8 bytes), page numbers above 255 included, and returns an   *)
(* error, without a crash, when the fourth field is no integer.            *)
(***************************************************************************)
C28_RootPageAnyWidth ==
    RootResolved =>
        /\ ~ret.r.panic
        /\ call.fld.N \in 1..6 => ~ret.r.err /\ ret.r.n = call.fld.v
        /\ call.fld.N \notin 1..9 => ret.r.err

\* The integer half of it, which holds.
RootIntegerSanity ==
    (RootResolved /\ call.fld.N \in 1..6) =>
        ~ret.r.panic /\ ~ret.r.err /\ ret.r.n = call.fld.v

(***************************************************************************)
(* Root page of the selected table that cannot be loaded.                  *)
(***************************************************************************)
\* HandleSelect is about to load the root page of the table at ti, and
\* newPageFromNumber will fail on it.
RootLoadFails ==
    /\ pc = "select" /\ ti <= Len(query.Tables)
    /\ query.Tables[ti] \in DOMAIN Tables
    /\ LET rp == RootPage(Tables[query.Tables[ti]])
       IN ~rp.panic /\ ~rp.err /\ newPageFromNumber(rp.n).err

(***************************************************************************)
(* C29: when loading the root page of a table fails in HandleSelect, the   *)
(* failure is printed for that table, queryTable is not entered with the   *)
(* nil page (no crash), and the loop goes on with the next table.          *)
(***************************************************************************)
C29_RootLoadFailureReported ==
    [][RootLoadFails =>
          /\ pc' = "select" /\ ti' = ti + 1
          /\ Len(out') = Len(out) + 1
          /\ out'[Len(out')].table = query.Tables[ti]]_vars

\* A root page that loads starts the scan on it.
RootLoadSanity ==
    [][(/\ pc = "select" /\ ti <= Len(query.Tables)
        /\ query.Tables[ti] \in DOMAIN Tables
        /\ ~RootPage(Tables[query.Tables[ti]]).err
        /\ ~RootPage(Tables[query.Tables[ti]]).panic
        /\ ~RootLoadFails)
         => pc' = "scan" /\ Len(stack') = 1]_vars

(***************************************************************************)
(* Rows shorter than the schema: a record with fewer fields than the table *)
(* has columns (a row written before a column was added), or whose header  *)
(* declares more field bytes than the payload holds.                       *)
(***************************************************************************)
\* The serial types of the fields of a row: 1-byte integers and 1-byte texts.
ShortRowTypes == UNION {[1..n -> {1, 15}] : n \in 0..3}

\* The row with the fields `types`, each one byte long, the last `cut`
\* bytes of the payload missing.
ShortRow(rowID, types, cut) ==
    LeafTableCell(rowID, types,
                  SubSeq([i \in 1..Len(types) |-> IF types[i] = 1 THEN 2 ELSE 113],
                         1, Len(types) - cut))

ShortRowInit ==
    /\ SelectIdle
    /\ \E types \in ShortRowTypes, cut \in 0..1, idents \in Projections,
          constraint \in Constraints :
          /\ cut <= Len(types)
          /\ call = [op |-> "LeafStep", cut |-> cut,
                     c |-> ShortRow(7, types, cut),
                     qq |-> [newQueryContext("a") EXCEPT !.rootCell = Tables["a"]],
                     qry |-> NewSelectCtx(<<"a">>, idents, constraint, 0)]
    /\ ret = NoCall

\* The body of handleQueryLeaf's loop on the row.
EvalRow ==
    /\ call.op = "LeafStep" /\ ret = NoCall
    /\ \E order \in KeyOrders(call.qry.Constraint) :
          ret' = [op |-> "LeafStep",
                  r |-> LeafStep(order, call.c, call.qq, call.qry)]
    /\ UNCHANGED <<call, svars>>

ShortRowNext == EvalRow

ShortRowSpec == ShortRowInit /\ [][ShortRowNext]_vars

RowEvaluated == call.op = "LeafStep" /\ ret # NoCall

\* The columns of table a the query names, by ordinal.
NamedOrdinals ==
    {call.qq.rootCell.ColumnMap[k] :
        k \in ((DOMAIN call.qry.Constraint)
               \cup (IF call.qry.IsCount THEN {}
                     ELSE {call.qry.Identifiers[i] :
                              i \in 1..Len(call.qry.Identifiers)}))
              \cap DOMAIN call.qq.rootCell.ColumnMap}

\* The row lacks a field the query names, or the bytes of one.
RowTooShort ==
    \E n \in NamedOrdinals :
       n >= Len(call.c.Header) \/ n >= Len(call.c.Data)

(***************************************************************************)
(* C30: evaluating the predicate and the projection on a leaf row that     *)
(* has fewer fields than the ordinal of a named column, or whose field     *)
(* bytes lie beyond the payload, never indexes outside the row's header    *)
(* or payload: the scan does not crash.                                    *)
(***************************************************************************)
C30_ShortRowNoCrash ==
    RowEvaluated => ~ret.r.panic

\* A row that has every named field is evaluated without a crash.
FullRowSanity ==
    (RowEvaluated /\ ~RowTooShort) => ~ret.r.panic

====
